---- MODULE Spec2Model ----
(***************************************************************************)
(* The output poller of disco-demon (src/index.ts): one conversation, its  *)
(* OutputState, the messages it creates and edits on the chat channel, and *)
(* the asynchronous ticks of processOutput that setInterval starts.        *)
(*                                                                         *)
(* Text is a string in run-length form: a sequence of runs [ch, n], n >= 1,*)
(* adjacent runs of different characters.  "a", "b", "c" stand for         *)
(* non-whitespace characters, " " for a space and "\n" for a newline.      *)
(***************************************************************************)
EXTENDS Integers, Sequences, FiniteSets, TLC

\* ---------------------------------------------------------------- bounds
MaxFires == 6          \* times the timer fires
MaxTurns == 2          \* user messages dispatched
MaxGen == 2            \* calls of startOutputPoller
MaxTicks == 2          \* invocations of processOutput in flight at once
MaxFailures == 1       \* sends and edits that throw
MaxLines == 5          \* lines of a capture handed to the parser
MaxCalls == 5          \* tool calls in one run handed to the summary
MaxDepth == 4          \* pieces in a directory argument
MaxPieces == 4         \* pieces of terminal output in one text
MaxContext == 2        \* lines ahead of the line the parser is watched on
RATE_STEP == 500       \* the grain of the clock when no timer runs (ms)

\* ------------------------------------------------------ program constants
IDLE_TIMEOUT == 5000
POLL_INTERVAL == 1500
\* the rows of the pane (tmux new-session -y 50), and the lines of history
\* asked for when the poller starts and on every tick
PANE_ROWS == 50
START_LINES == 80
TICK_LINES == 200
maxMessageLength == 1950
NEWLINE_WINDOW == 300
MIN_SPLIT == 100
MIN_CONTENT == 3
DISCORD_LIMIT == 2000
RATE_LIMIT_MS == 1000

\* the clock stops advancing here (ms)
MaxNow == MaxFires * POLL_INTERVAL

\* ------------------------------------------------------------ strings
Run(c, k) == [ch |-> c, n |-> k]
EmptyText == << >>
Str(c, k) == IF k = 0 THEN EmptyText ELSE << Run(c, k) >>

IsWs(c) == c \in {" ", "\n"}

RECURSIVE TLen(_)
TLen(t) == IF t = << >> THEN 0 ELSE Head(t).n + TLen(Tail(t))

\* string concatenation, kept in run-length normal form
Cat(s, t) ==
  IF s = << >> THEN t
  ELSE IF t = << >> THEN s
  ELSE IF s[Len(s)].ch = t[1].ch
       THEN SubSeq(s, 1, Len(s) - 1) \o << Run(t[1].ch, s[Len(s)].n + t[1].n) >> \o Tail(t)
       ELSE s \o t

\* the first k characters of t
RECURSIVE Take(_, _)
Take(t, k) ==
  IF k <= 0 \/ t = << >> THEN << >>
  ELSE IF Head(t).n >= k THEN << Run(Head(t).ch, k) >>
  ELSE << Head(t) >> \o Take(Tail(t), k - Head(t).n)

\* t without its first k characters
RECURSIVE Drop(_, _)
Drop(t, k) ==
  IF k <= 0 \/ t = << >> THEN t
  ELSE IF Head(t).n > k THEN << Run(Head(t).ch, Head(t).n - k) >> \o Tail(t)
  ELSE Drop(Tail(t), k - Head(t).n)

\* String.prototype.slice(from, to) for 0 <= from
Slice(t, from, to) == Take(Drop(t, from), to - from)
SliceFrom(t, from) == Drop(t, from)

RECURSIVE TrimStart(_)
TrimStart(t) ==
  IF t = << >> THEN t
  ELSE IF IsWs(Head(t).ch) THEN TrimStart(Tail(t))
  ELSE t

RECURSIVE TrimEnd(_)
TrimEnd(t) ==
  IF t = << >> THEN t
  ELSE IF IsWs(t[Len(t)].ch) THEN TrimEnd(SubSeq(t, 1, Len(t) - 1))
  ELSE t

\* String.prototype.trim()
Trim(t) == TrimEnd(TrimStart(t))

\* String.prototype.lastIndexOf(c): index of the last c in t, or -1
RECURSIVE LastIndexOf(_, _)
LastIndexOf(t, c) ==
  IF t = << >> THEN -1
  ELSE IF t[Len(t)].ch = c THEN TLen(t) - 1
  ELSE LastIndexOf(SubSeq(t, 1, Len(t) - 1), c)

Min(a, b) == IF a < b THEN a ELSE b

\* ------------------------------------------------- terminal captures
(* A capture is the sequence of its lines.  A line is one of              *)
(*   echo    "> text"  the user's input echoed with content               *)
(*   prompt  ">"       the empty input box                                *)
(*   lead    "* text"  a line with the assistant lead glyph               *)
(*   plain   "text"    a line with no glyph                               *)
(*   toolout "L text"  a tool-output continuation line                    *)
(*   tool    "* Read(target)"  a line one of the tool patterns matches;   *)
(*           src is the tool name as printed, body the target as printed  *)
(*   marker  [SKILL_REQUEST: source="src" scope="channel"]                *)
(*   blank   the empty line                                               *)
(* sgr says that the line is wrapped in SGR colour escapes (ESC[..m).     *)
(* rows is the number of such lines, one under the other (1 but in long   *)
(* scrollback).                                                           *)
Ln(kind, text, source, colour) ==
  [k |-> kind, body |-> text, src |-> source, sgr |-> colour, rows |-> 1]
Rows(line, r) == [line EXCEPT !.rows = r]
Echo(text) == Ln("echo", text, "", FALSE)
Prompt == Ln("prompt", EmptyText, "", FALSE)
Lead(text) == Ln("lead", text, "", FALSE)
Plain(text) == Ln("plain", text, "", FALSE)
ToolOut(text) == Ln("toolout", text, "", FALSE)
Marker(source) == Ln("marker", EmptyText, source, FALSE)
Tool(name, target) == Ln("tool", target, name, FALSE)
Blank == Ln("blank", EmptyText, "", FALSE)
Coloured(line) == [line EXCEPT !.sgr = TRUE]

\* .replace(/\x1b\[[0-9;]*m/g, '') on every line
StripSgr(lines) == [i \in 1..Len(lines) |-> [lines[i] EXCEPT !.sgr = FALSE]]

\* .replace(/\n{3,}/g, '\n\n'): of a run of empty lines one is kept
RECURSIVE CollapseNewlines(_)
CollapseNewlines(lines) ==
  IF lines = << >> THEN lines
  ELSE IF lines[1].k = "blank" /\ lines[1].rows > 1
       THEN CollapseNewlines(<< Rows(lines[1], 1) >> \o Tail(lines))
  ELSE IF Len(lines) < 2 THEN lines
  ELSE IF lines[1].k = "blank" /\ lines[2].k = "blank"
       THEN CollapseNewlines(Tail(lines))
       ELSE << Head(lines) >> \o CollapseNewlines(Tail(lines))

\* .trim() of the capture: the empty lines at both ends go
RECURSIVE TrimLines(_)
TrimLines(lines) ==
  IF lines = << >> THEN lines
  ELSE IF Head(lines).k = "blank" THEN TrimLines(Tail(lines))
  ELSE IF lines[Len(lines)].k = "blank" THEN TrimLines(SubSeq(lines, 1, Len(lines) - 1))
  ELSE lines

cleanForCompare(raw) == TrimLines(CollapseNewlines(StripSgr(raw)))

\* the sources of the SKILL_REQUEST markers of a capture, in matchAll order
RECURSIVE SkillMatches(_)
SkillMatches(lines) ==
  IF lines = << >> THEN << >>
  ELSE IF Head(lines).k = "marker"
       THEN [r \in 1..Head(lines).rows |-> Head(lines).src] \o SkillMatches(Tail(lines))
  ELSE SkillMatches(Tail(lines))

\* --------------------------------------------------- parseClaudeOutput
\* OutputSegment
NoSegment == [type |-> "none", content |-> EmptyText, toolName |-> "", toolTarget |-> EmptyText]
TextSegment(text) == [NoSegment EXCEPT !.type = "text", !.content = text]
ToolCall(name, target) ==
  [NoSegment EXCEPT !.type = "tool_call", !.toolName = name, !.toolTarget = target]

\* 'Searched' is filed under Grep
ToolName(printed) == IF printed = "Searched" THEN "Grep" ELSE printed

\* a target of more than 50 characters is cut to 47 and an ellipsis
ToolTarget(target) ==
  IF TLen(target) > 50 THEN Cat(Take(target, 47), Str(".", 3)) ELSE target

\* the boundary search without the test for content after the glyph
RECURSIVE LastEchoOrPrompt(_, _)
LastEchoOrPrompt(lines, i) ==
  IF i = 0 THEN 0
  ELSE IF lines[i].k \in {"echo", "prompt"} THEN i
  ELSE LastEchoOrPrompt(lines, i - 1)

\* index of the last echo line with content, 0 if there is none
RECURSIVE LastEcho(_, _)
LastEcho(lines, i) ==
  IF i = 0 THEN 0
  ELSE IF lines[i].k = "echo" THEN i
  ELSE LastEcho(lines, i - 1)

\* the parser's loop state: segments pushed, currentSegment (cur, when
\* open), and inToolOutput
RECURSIVE ParseFrom(_, _, _, _, _, _)
ParseFrom(lines, i, segs, open, cur, inTool) ==
  IF i > Len(lines) THEN (IF open THEN Append(segs, cur) ELSE segs)
  ELSE LET l == lines[i]
           pushed == IF open THEN Append(segs, cur) ELSE segs
       IN
    CASE l.rows > 1 /\ l.k \notin {"blank", "echo", "prompt", "marker", "toolout"} ->
           \* the first of the rows, then the others
           ParseFrom(SubSeq(lines, 1, i - 1) \o << Rows(l, 1), Rows(l, l.rows - 1) >>
                       \o SubSeq(lines, i + 1, Len(lines)),
                     i, segs, open, cur, inTool)
      [] l.k = "blank" ->
           ParseFrom(lines, i + 1, segs, open,
                     IF open /\ cur.type = "text"
                     THEN [cur EXCEPT !.content = Cat(@, Str("\n", l.rows))] ELSE cur, inTool)
      [] l.k \in {"echo", "prompt", "marker"} ->
           ParseFrom(lines, i + 1, segs, open, cur, inTool)
      [] l.k = "toolout" ->
           ParseFrom(lines, i + 1, segs, open, cur, TRUE)
      [] l.k = "tool" ->
           ParseFrom(lines, i + 1, pushed, TRUE,
                     ToolCall(ToolName(l.src), ToolTarget(l.body)), TRUE)
      [] l.k = "lead" ->
           ParseFrom(lines, i + 1, pushed, TRUE, TextSegment(l.body), FALSE)
      [] OTHER ->
           ParseFrom(lines, i + 1, segs, open,
                     IF open /\ cur.type = "text" /\ ~inTool
                     THEN [cur EXCEPT !.content = Cat(Cat(@, Str("\n", 1)), l.body)]
                     ELSE cur, inTool)

\* the segments of the lines after the last echo line
parseClaudeOutput(lines) ==
  ParseFrom(lines, LastEcho(lines, Len(lines)) + 1, << >>, FALSE, NoSegment, FALSE)

\* ------------------------------------------------ formatToolCallSummary
LIST_MAX == 3

\* TOOL_EMOJI[toolName].length
EmojiLen(toolName) == IF toolName \in {"Bash", "AskUserQuestion"} THEN 1 ELSE 2

Words(n1, n2) == Cat(Cat(Str("t", n1), Str(" ", 1)), Str("t", n2))

\* displayName[toolName] || toolName
Friendly(toolName) ==
  CASE toolName = "Bash" -> Words(3, 7)
    [] toolName = "Read" -> Words(4, 4)
    [] toolName = "Edit" -> Str("t", 6)
    [] toolName = "Write" -> Str("t", 7)
    [] toolName \in {"Glob", "Grep", "WebSearch"} -> Str("t", 8)
    [] toolName = "Task" -> Words(7, 5)
    [] toolName = "WebFetch" -> Str("t", 7)
    [] toolName = "MCP" -> Str("t", 3)
    [] OTHER -> Str("t", 15)

\* the keys of grouped, in insertion order
RECURSIVE ToolOrder(_, _)
ToolOrder(calls, seen) ==
  IF calls = << >> THEN << >>
  ELSE IF Head(calls).toolName \in seen THEN ToolOrder(Tail(calls), seen)
  ELSE << Head(calls).toolName >> \o ToolOrder(Tail(calls), seen \cup {Head(calls).toolName})

\* grouped[toolName]
Bucket(calls, toolName) == SelectSeq(calls, LAMBDA c : c.toolName = toolName)

\* .map(c => c.toolTarget).filter(Boolean)
Targets(toolCalls) ==
  LET named == SelectSeq(toolCalls, LAMBDA c : c.toolTarget # EmptyText)
  IN [i \in 1..Len(named) |-> named[i].toolTarget]

\* the summary with the list kept for one call more
SummaryListsFour(toolName, toolCalls) ==
  LET n == Len(toolCalls)
      targets == Targets(toolCalls)
      form == IF n = 1 THEN (IF targets # << >> THEN "targets" ELSE "bare")
              ELSE IF n <= LIST_MAX + 1 THEN (IF targets # << >> THEN "targets" ELSE "count")
              ELSE "count"
  IN [ toolName |-> toolName, form |-> form, count |-> n,
       targets |-> IF form = "targets" THEN targets ELSE << >> ]

\* how a bucket is summarised: with its targets, or as a count
Summary(toolName, toolCalls) ==
  LET n == Len(toolCalls)
      targets == Targets(toolCalls)
      form == IF n = 1 THEN (IF targets # << >> THEN "targets" ELSE "bare")
              ELSE IF n <= LIST_MAX THEN (IF targets # << >> THEN "targets" ELSE "count")
              ELSE "count"
  IN [ toolName |-> toolName, form |-> form, count |-> n,
       targets |-> IF form = "targets" THEN targets ELSE << >> ]

\* the summaries of a run of tool calls, one per tool name
Summaries(calls) ==
  LET order == ToolOrder(calls, {})
  IN [i \in 1..Len(order) |-> Summary(order[i], Bucket(calls, order[i]))]

Quoted(target) == Cat(Cat(Str("q", 1), target), Str("q", 1))

RECURSIVE JoinWith(_, _)
JoinWith(parts, sep) ==
  IF parts = << >> THEN EmptyText
  ELSE IF Len(parts) = 1 THEN parts[1]
  ELSE Cat(Cat(parts[1], sep), JoinWith(Tail(parts), sep))

\* the decimal digits of n
RECURSIVE Digits(_)
Digits(n) == IF n < 10 THEN 1 ELSE 1 + Digits(n \div 10)

\* a summary as text: e stands for the emoji, t for a letter, q for the
\* quote around a target, x for the
\* times sign, 9 for a digit
RenderSummary(sm) ==
  LET head == Cat(Cat(Str("e", EmojiLen(sm.toolName)), Str(" ", 1)), Friendly(sm.toolName))
  IN CASE sm.form = "bare" -> head
       [] sm.form = "targets" ->
            Cat(Cat(head, Cat(Str(":", 1), Str(" ", 1))),
                JoinWith([i \in 1..Len(sm.targets) |-> Quoted(sm.targets[i])],
                         Cat(Str(",", 1), Str(" ", 1))))
       [] OTHER -> Cat(Cat(head, Cat(Str(" ", 1), Str("x", 1))), Str("9", Digits(sm.count)))

formatToolCallSummary(calls) ==
  LET sms == Summaries(calls)
  IN JoinWith([i \in 1..Len(sms) |-> RenderSummary(sms[i])], Str("\n", 1))

\* ---------------------------------------------------- formatForDiscord
JoinParts(parts) == JoinWith(parts, Str("\n", 2))

\* the loop with the pending tool calls flushed only after the last segment
RECURSIVE FormatFromFlushLast(_, _, _, _)
FormatFromFlushLast(segs, i, parts, toolCalls) ==
  IF i > Len(segs)
  THEN (IF toolCalls # << >> THEN Append(parts, formatToolCallSummary(toolCalls)) ELSE parts)
  ELSE IF segs[i].type = "text"
       THEN FormatFromFlushLast(segs, i + 1, Append(parts, Trim(segs[i].content)), toolCalls)
  ELSE IF segs[i].type = "tool_call"
       THEN FormatFromFlushLast(segs, i + 1, parts, Append(toolCalls, segs[i]))
  ELSE FormatFromFlushLast(segs, i + 1, parts, toolCalls)

\* the loop over the segments: parts pushed, tool calls not yet flushed
RECURSIVE FormatFrom(_, _, _, _)
FormatFrom(segs, i, parts, toolCalls) ==
  LET flushed == IF toolCalls # << >> THEN Append(parts, formatToolCallSummary(toolCalls))
                 ELSE parts
  IN IF i > Len(segs) THEN flushed
     ELSE IF segs[i].type = "text"
          THEN FormatFrom(segs, i + 1, Append(flushed, Trim(segs[i].content)), << >>)
     ELSE IF segs[i].type = "tool_call"
          THEN FormatFrom(segs, i + 1, parts, Append(toolCalls, segs[i]))
     ELSE FormatFrom(segs, i + 1, parts, toolCalls)

formatForDiscord(segs) == Trim(JoinParts(FormatFrom(segs, 1, << >>, << >>)))

FormattedContent(outputForCompare) == formatForDiscord(parseClaudeOutput(outputForCompare))

\* -------------------------------------------------------------- screens
\* what the terminal can show: the captures the poller can take
UserLine == Echo(Str("a", 5))
ShortProse == Str("a", 4)
LongProse == Str("a", 1800)

ScreenEcho == << UserLine >>
ScreenShort == << UserLine, Blank, Lead(ShortProse) >>
ScreenShortColoured == << UserLine, Blank, Blank, Coloured(Lead(ShortProse)), Blank >>
ScreenSkillA == << UserLine, Lead(ShortProse), Marker("A") >>
ScreenSkillAB == << UserLine, Lead(ShortProse), Marker("A"), Lead(ShortProse), Marker("B") >>
ScreenLong == << UserLine, Lead(LongProse), Plain(Str("b", 300)) >>
ScreenAsked == << UserLine, Lead(ShortProse), Echo(Str("b", 2)), Prompt >>
ScreenNext == << UserLine, Lead(ShortProse), Echo(Str("b", 2)), Lead(Str("c", 3)), Prompt >>

\* the pane is scrollback: in one run it moves forward through a script
CoreScripts ==
  { << ScreenEcho, ScreenShort, ScreenShortColoured, ScreenAsked, ScreenNext >>,
    << ScreenEcho, ScreenShort, ScreenLong >> }
SkillScripts == { << ScreenEcho, ScreenSkillA, ScreenSkillAB >> }
LifeScripts == { << ScreenEcho, ScreenShort >> }
ReplyScripts == { << ScreenEcho, ScreenSkillA >> }

\* a request marker under the user's line with no prose of Claude's, or with
\* prose below the floor of MIN_CONTENT characters
ScreenMarkerOnly == << UserLine, Marker("A") >>
ScreenMarkerBrief == << UserLine, Lead(Str("a", MIN_CONTENT - 1)), Marker("A") >>
MarkerScripts ==
  { << ScreenEcho, ScreenMarkerOnly >>,
    << ScreenEcho, ScreenMarkerBrief >>,
    << ScreenEcho, ScreenMarkerOnly, ScreenSkillA >>,
    << ScreenEcho, ScreenShort, ScreenSkillA >> }

\* answers of up to three paragraphs "a..", "b..", "c.." of the lengths given,
\* each on a line of its own, with gap empty lines after the first and a
\* space in place of the second line break when spaced
Answer(n1, gap, n2, spaced, n3) ==
  << UserLine, Lead(Str("a", n1)) >>
  \o [i \in 1..gap |-> Blank]
  \o (IF n2 = 0 THEN << >>
      ELSE IF spaced /\ n3 > 0
           THEN << Plain(Cat(Cat(Str("b", n2), Str(" ", 1)), Str("c", n3))) >>
           ELSE << Plain(Str("b", n2)) >> \o (IF n3 = 0 THEN << >> ELSE << Plain(Str("c", n3)) >>))

SplitLengths1 == { 4, 101, 1650, 1651, 1949, 1950, 1951, 3900 }
SplitLengths2 == { 0, 1, 299, 300, 1950, 2000 }
SplitLengths3 == { 0, 1, 1949 }
SplitScripts ==
  { << ScreenEcho, Answer(n1, gap, n2, spaced, n3) >> :
      n1 \in SplitLengths1, gap \in 0..1, n2 \in SplitLengths2,
      spaced \in BOOLEAN, n3 \in SplitLengths3 }

\* an answer that grows: the pane shows two paragraphs, then a third under
\* them
GrowLengths1 == { 1700, 1900 }
GrowLengths2 == { 200, 2000 }
GrowLengths3 == { 5, 300 }
GrowScripts ==
  { << ScreenEcho, Answer(n1, gap, n2, FALSE, 0), Answer(n1, gap, n2, FALSE, n3) >> :
      n1 \in GrowLengths1, gap \in 0..1, n2 \in GrowLengths2, n3 \in GrowLengths3 }

\* an answer that shrinks: the pane shows one or two paragraphs and is then
\* redrawn with a shorter answer under the same line of the user
ShrinkLengths1 == { 1700, 1900 }
ShrinkLengths2 == { 200, 2000 }
ShrinkLengths3 == { 4, 300, 1800 }
ShrinkScripts ==
  { << ScreenEcho, Answer(n1, gap, n2, FALSE, 0), Answer(n3, 0, 0, FALSE, 0) >> :
      n1 \in ShrinkLengths1, gap \in 0..1, n2 \in ShrinkLengths2, n3 \in ShrinkLengths3 }

\* a session found with an answer already in its buffer: the user's line,
\* Claude's prose, a tool call and n lines of its output; nothing is
\* written to the pane afterwards
Scrollback(n, len) ==
  << UserLine, Lead(Str("a", len)), Tool("Bash", Str("c", 2)), Rows(ToolOut(Str("b", 2)), n) >>
ScrollLines == { 3, START_LINES + PANE_ROWS - 3, START_LINES + PANE_ROWS - 2,
                 START_LINES + PANE_ROWS + 6, TICK_LINES + PANE_ROWS + 6 }
ScrollWidths == { 4, 1800, 2000 }
ScrollScripts == { << Scrollback(n, len) >> : n \in ScrollLines, len \in ScrollWidths }

\* ---------------------------------------------------------------- state
VARIABLES
  script,                \* the captures the pane goes through in this run
  terminal,              \* the index in script of what the pane shows now
  sessionExists,         \* sessionManager.sessionExists(sessionId)
  now,                   \* Date.now()
  gen,                   \* calls of startOutputPoller so far
  poller,                \* the generation whose state is in outputStates and
                         \* whose timer that state holds; 0 when there is none
  timers,                \* the generations whose interval is set and not cleared
  states,                \* the OutputState object of each generation
  ticks,                 \* the invocations of processOutput in flight
  msgs,                  \* the response messages on the channel
  pendingSkillRequests,  \* the pending request's source, "" when none
  promptSends,           \* per source, the confirmation prompts sent
  consumed,              \* skill requests answered with confirm or cancel
  noticeSends,           \* 'Session has ended.' notices sent
  turns,                 \* user messages forwarded to the terminal
  idleEdits,             \* idle removals done since the last content change
  retired,               \* the control was retired during the current turn
  failures,              \* sends and edits that threw
  probe,                 \* a call of a pure function: its input and its result
  userLastMessage,       \* per user, Date.now() at the last message accepted
  forwarding,            \* messageCreate handlers past the rate limit, not yet
                         \* at markUserInput
  installed,             \* per source, installSkill calls made for a request
  lastOutcome            \* what became of the last message that arrived

vars == << script, terminal, sessionExists, now, gen, poller, timers, states, ticks, msgs,
           pendingSkillRequests, promptSends, consumed, noticeSends, turns,
           idleEdits, retired, failures, probe, userLastMessage, forwarding,
           installed, lastOutcome >>

Sources == {"A", "B"}
Users == {"u1", "u2"}          \* the users who write more than once
Guest == "guest"               \* a user who writes once: the entry the
                               \* limiter keeps for them is never read again
Gens == 1..MaxGen
TickIds == 1..MaxTicks

\* the object startOutputPoller builds
NewState(t, initial) ==
  [ responseMessage |-> 0,
    lastContent |-> initial,
    awaitingResponse |-> FALSE,
    accumulatedResponse |-> EmptyText,
    lastUpdateTime |-> t,
    buttonsRemoved |-> TRUE,
    currentMessageStart |-> 0 ]

\* a slot with no invocation in it
FreeTick ==
  [ pc |-> "free", gen |-> 0, contentChanged |-> FALSE, outputForCompare |-> << >>,
    skillIdx |-> 0, liveTail |-> EmptyText, displayContent |-> EmptyText,
    chunks |-> << >>, target |-> 0, failed |-> FALSE ]

InFlight == { t \in TickIds : ticks[t].pc # "free" }
StopMessages == { m \in 1..Len(msgs) : msgs[m].stop }

\* the last n rows of a buffer
RECURSIVE LastRows(_, _)
LastRows(buffer, n) ==
  IF buffer = << >> \/ n = 0 THEN << >>
  ELSE LET l == buffer[Len(buffer)]
       IN IF l.rows >= n THEN << Rows(l, n) >>
          ELSE Append(LastRows(SubSeq(buffer, 1, Len(buffer) - 1), n - l.rows), l)

\* sessionManager.captureOutput: tmux capture-pane -S -lines -E '', the
\* pane and up to lines lines of the history above it
captureOutput(i, lines) == LastRows(script[i], lines + PANE_ROWS)

\* no call of a pure function is under observation
NoProbe == [input |-> << >>, output |-> << >>, done |-> FALSE]

\* nothing has happened on the channel yet
Fresh ==
  /\ terminal = 1
  /\ now = 0
  /\ ticks = [t \in TickIds |-> FreeTick]
  /\ msgs = << >>
  /\ pendingSkillRequests = ""
  /\ promptSends = [s \in Sources |-> 0]
  /\ consumed = 0
  /\ noticeSends = 0
  /\ turns = 0
  /\ idleEdits = 0
  /\ retired = FALSE
  /\ failures = 0
  /\ userLastMessage = [u \in Users |-> 0]
  /\ forwarding = 0
  /\ installed = [s \in Sources |-> 0]
  /\ lastOutcome = "none"

\* the bot has started and has called startOutputPoller for a live session
Started ==
  /\ Fresh
  /\ probe = NoProbe
  /\ sessionExists = TRUE
  /\ gen = 1
  /\ poller = 1
  /\ timers = {1}
  /\ states = [g \in Gens |-> NewState(0, cleanForCompare(captureOutput(1, START_LINES)))]

\* the bot has started and there is no session
InitLife ==
  /\ script \in LifeScripts
  /\ Fresh
  /\ probe = NoProbe
  /\ sessionExists = FALSE
  /\ gen = 0
  /\ poller = 0
  /\ timers = {}
  /\ states = [g \in Gens |-> NewState(0, << >>)]

\* ------------------------------------------------------- the environment
\* the tmux session goes away
SessionEnds ==
  /\ sessionExists
  /\ sessionExists' = FALSE
  /\ UNCHANGED << probe, userLastMessage, forwarding, installed, lastOutcome, script, terminal, now, gen, poller, timers, states, ticks, msgs,
                  pendingSkillRequests, promptSends, consumed, noticeSends, turns,
                  idleEdits, retired, failures >>

\* clearInterval that clears nothing
ClearIntervalOfNone(ts, h) == ts

\* clearInterval(state.poller)
ClearInterval(ts, h) == ts \ {h}

\* stopOutputPoller that leaves the timer registered
stopOutputPollerKeepsTimer(p) == p

\* stopOutputPoller: clearInterval and outputStates.delete
stopOutputPoller(p) == 0

\* /disco new: createSession, then startOutputPoller, which stops a poller
\* still registered for the id, sets the timer and takes the first capture
StartOutputPoller ==
  /\ ~sessionExists
  /\ gen < MaxGen
  /\ sessionExists' = TRUE
  /\ terminal' = 1
  /\ gen' = gen + 1
  /\ poller' = gen + 1
  /\ timers' = ClearInterval(timers, poller) \cup {gen + 1}
  /\ states' = [states EXCEPT ![gen + 1] = NewState(now, cleanForCompare(captureOutput(1, START_LINES)))]
  /\ idleEdits' = 0
  /\ retired' = FALSE
  /\ UNCHANGED << probe, userLastMessage, forwarding, installed, lastOutcome, script, now, ticks, msgs, pendingSkillRequests, promptSends, consumed,
                  noticeSends, turns, failures >>

\* ------------------------------------------------------- markUserInput
\* markUserInput that forgets to reset the offset of the live message
markUserInputKeepsOffset(st, t) ==
  [st EXCEPT !.awaitingResponse = TRUE,
             !.responseMessage = 0,
             !.accumulatedResponse = EmptyText,
             !.lastUpdateTime = t,
             !.buttonsRemoved = FALSE]

markUserInput(st, t) ==
  [st EXCEPT !.awaitingResponse = TRUE,
             !.responseMessage = 0,
             !.accumulatedResponse = EmptyText,
             !.lastUpdateTime = t,
             !.buttonsRemoved = FALSE,
             !.currentMessageStart = 0]

\* ------------------------------------------------------- messageCreate
\* a message's text: its word, whether it came in capitals, and whether it
\* came with spaces around it
Content(text, capitals, spaces) == [word |-> text, upper |-> capitals, padded |-> spaces]
Hello == Content("hello", FALSE, FALSE)
Contents ==
  { Content("confirm", FALSE, FALSE), Content("confirm", TRUE, TRUE),
    Content("cancel", FALSE, FALSE), Content("cancel", TRUE, FALSE),
    Content("confirm it", FALSE, FALSE), Hello }

SkillReplies == { Content("confirm", FALSE, FALSE), Content("cancel", FALSE, FALSE) }

\* a comparison with the raw content
RawContent(c) == IF c.upper \/ c.padded THEN "" ELSE c.word

\* message.content.toLowerCase().trim()
toLowerCaseTrim(c) == c.word

\* Date.now(): the process starts later than rateLimitMs after the epoch
DateNow(t) == t + RATE_LIMIT_MS

\* a limiter with the comparison turned round
IsRateLimitedInverted(lastTime, t) == DateNow(t) - lastTime > RATE_LIMIT_MS

\* now - lastTime < config.rateLimitMs
IsRateLimited(lastTime, t) == DateNow(t) - lastTime < RATE_LIMIT_MS

\* the handler up to its first await: the reply to a pending skill request
\* (confirm: delete the request, download and install; cancel: delete it),
\* or the rate limit and the timestamp
MessageCreate(u, c) ==
  /\ sessionExists
  /\ LET content == toLowerCaseTrim(c)
         pendingRequest == pendingSkillRequests
         lastTime == IF u \in Users THEN userLastMessage[u] ELSE 0
     IN IF pendingRequest # "" /\ content = "confirm"
        THEN /\ pendingSkillRequests' = ""
             /\ consumed' = consumed + 1
             /\ \E ok \in BOOLEAN :
                  installed' = IF ok THEN [installed EXCEPT ![pendingRequest] = @ + 1]
                               ELSE installed
             /\ lastOutcome' = "confirmed"
             /\ UNCHANGED << userLastMessage, forwarding >>
        ELSE IF pendingRequest # "" /\ content = "cancel"
        THEN /\ pendingSkillRequests' = ""
             /\ consumed' = consumed + 1
             /\ lastOutcome' = "cancelled"
             /\ UNCHANGED << userLastMessage, forwarding, installed >>
        ELSE IF IsRateLimited(lastTime, now)
        THEN /\ lastOutcome' = "dropped"
             /\ UNCHANGED << pendingSkillRequests, consumed, userLastMessage, forwarding,
                             installed >>
        ELSE /\ turns + forwarding < MaxTurns
             /\ userLastMessage' = IF u \in Users
                                    THEN [userLastMessage EXCEPT ![u] = DateNow(now)]
                                    ELSE userLastMessage
             /\ forwarding' = forwarding + 1
             /\ lastOutcome' = "accepted"
             /\ UNCHANGED << pendingSkillRequests, consumed, installed >>
  /\ UNCHANGED << probe, script, terminal, sessionExists, now, gen, poller, timers, states, ticks,
                  msgs, promptSends, noticeSends, turns, idleEdits, retired, failures >>

\* the handler after sendTyping: markUserInput, then sendToSession (both
\* run before the handler yields again)
MessageForward ==
  /\ forwarding > 0
  /\ forwarding' = forwarding - 1
  /\ turns' = IF sessionExists THEN turns + 1 ELSE turns
  /\ states' = IF poller = 0 THEN states
               ELSE [states EXCEPT ![poller] = markUserInput(states[poller], now)]
  /\ idleEdits' = 0
  /\ retired' = FALSE
  /\ UNCHANGED << probe, userLastMessage, installed, lastOutcome, script, terminal,
                  sessionExists, now, gen, poller, timers, ticks, msgs, pendingSkillRequests,
                  promptSends, consumed, noticeSends, failures >>

\* time passes with no timer due
Wait ==
  /\ now + RATE_STEP <= MaxNow
  /\ now' = now + RATE_STEP
  /\ UNCHANGED << probe, userLastMessage, forwarding, installed, lastOutcome, script,
                  terminal, sessionExists, gen, poller, timers, states, ticks, msgs,
                  pendingSkillRequests, promptSends, consumed, noticeSends, turns,
                  idleEdits, retired, failures >>

\* -------------------------------------------------------- processOutput
(* An invocation runs from one await to the next without interruption.     *)
(* The operators below map a world w, the part of the state an invocation  *)
(* reads and writes (st: its OutputState object, tk: its own locals,       *)
(* pending: pendingSkillRequests, prompts: promptSends), to the world at   *)
(* its next await or at its return.                                        *)
\* a return that also rewinds the offset of the live message
DoneRewinds(w) == [w EXCEPT !.tk = FreeTick, !.st.currentMessageStart = 0]

Done(w) == [w EXCEPT !.tk = FreeTick]

\* a comparison that takes every capture for new
ContentChangedAlways(outputForCompare, lastContent) == TRUE

ContentChanged(outputForCompare, lastContent) == outputForCompare # lastContent

IdleDue(st, t) ==
  /\ ~st.buttonsRemoved
  /\ t - st.lastUpdateTime > IDLE_TIMEOUT
  /\ st.responseMessage # 0

\* the cut with Math.max in place of Math.min
SplitPointMax(displayContent) ==
  LET splitPoint == IF TLen(displayContent) > maxMessageLength
                    THEN TLen(displayContent) ELSE maxMessageLength
      searchArea == Slice(displayContent, 0, splitPoint)
      lastNewline == LastIndexOf(searchArea, "\n")
  IN IF lastNewline > splitPoint - NEWLINE_WINDOW /\ lastNewline > MIN_SPLIT
     THEN lastNewline ELSE splitPoint

\* a cut at the last newline wherever it lies past the floor
SplitPointAnyNewline(displayContent) ==
  LET splitPoint == Min(TLen(displayContent), maxMessageLength)
      searchArea == Slice(displayContent, 0, splitPoint)
      lastNewline == LastIndexOf(searchArea, "\n")
  IN IF lastNewline > MIN_SPLIT THEN lastNewline ELSE splitPoint

\* where the split loop cuts displayContent
SplitPoint(displayContent) ==
  LET splitPoint == Min(TLen(displayContent), maxMessageLength)
      searchArea == Slice(displayContent, 0, splitPoint)
      lastNewline == LastIndexOf(searchArea, "\n")
  IN IF lastNewline > splitPoint - NEWLINE_WINDOW /\ lastNewline > MIN_SPLIT
     THEN lastNewline ELSE splitPoint

\* the head of the split loop: another chunk to finalize, or the final write
SplitLoop(w) ==
  IF TLen(w.tk.displayContent) > maxMessageLength
  THEN [w EXCEPT !.tk.pc = "chunk", !.tk.target = w.st.responseMessage]
  ELSE [w EXCEPT !.tk.pc = "final", !.tk.target = w.st.responseMessage]

\* the live tail: the accumulated response from currentMessageStart on
Deliver(w) ==
  LET displayContent == SliceFrom(w.st.accumulatedResponse, w.st.currentMessageStart)
  IN SplitLoop([w EXCEPT !.tk.liveTail = displayContent,
                         !.tk.displayContent = displayContent])

\* a lookup keyed by the requested source instead of the channel
AlreadyPendingSource(pending, source) == pending = source

\* pendingSkillRequests.has(channel.id): the map is keyed by the channel
AlreadyPending(pending, source) == pending # ""

\* the loop over the skill-request markers, from the i-th match on
RECURSIVE SkillLoop(_, _)
SkillLoop(w, i) ==
  LET matches == SkillMatches(w.tk.outputForCompare) IN
  IF i > Len(matches) THEN Deliver(w)
  ELSE IF ~AlreadyPending(w.pending, matches[i])
       THEN [w EXCEPT !.pending = matches[i],
                      !.prompts[matches[i]] = @ + 1,
                      !.tk.pc = "skill",
                      !.tk.skillIdx = i]
       ELSE SkillLoop(w, i + 1)

\* the same without 'if (!contentChanged) return'
AfterIdleNoReturn(w) ==
  LET formattedContent == FormattedContent(w.tk.outputForCompare) IN
  IF TLen(formattedContent) < MIN_CONTENT
  THEN IF w.st.awaitingResponse THEN [w EXCEPT !.tk.pc = "typing"] ELSE Done(w)
  ELSE SkillLoop([w EXCEPT !.st.accumulatedResponse = formattedContent], 1)

\* from 'if (!contentChanged) return' to the next await
AfterIdle(w) ==
  IF ~w.tk.contentChanged THEN Done(w)
  ELSE LET formattedContent == FormattedContent(w.tk.outputForCompare) IN
       IF TLen(formattedContent) < MIN_CONTENT
       THEN IF w.st.awaitingResponse THEN [w EXCEPT !.tk.pc = "typing"] ELSE Done(w)
       ELSE SkillLoop([w EXCEPT !.st.accumulatedResponse = formattedContent], 1)

\* from the capture to the next await
Begin(w, raw, t) ==
  LET outputForCompare == cleanForCompare(raw)
      contentChanged == ContentChanged(outputForCompare, w.st.lastContent)
      st1 == IF contentChanged
             THEN [w.st EXCEPT !.lastContent = outputForCompare,
                               !.lastUpdateTime = t,
                               !.buttonsRemoved = FALSE]
             ELSE w.st
      w1 == [w EXCEPT !.st = st1,
                      !.tk.contentChanged = contentChanged,
                      !.tk.outputForCompare = outputForCompare]
  IN IF IdleDue(st1, t)
     THEN [w1 EXCEPT !.tk.pc = "idle", !.tk.target = st1.responseMessage]
     ELSE AfterIdle(w1)

World(t, g) ==
  [ st |-> states[g], tk |-> ticks[t], pending |-> pendingSkillRequests, prompts |-> promptSends ]

\* write a world back
Commit(t, g, w) ==
  /\ states' = [states EXCEPT ![g] = w.st]
  /\ ticks' = [ticks EXCEPT ![t] = w.tk]
  /\ pendingSkillRequests' = w.pending
  /\ promptSends' = w.prompts

\* a send or an edit returns (ok) or throws
Outcome(ok) ==
  /\ ok \/ failures < MaxFailures
  /\ failures' = IF ok THEN failures ELSE failures + 1

\* the timer fires into the lowest free slot
CanFire(t) ==
  /\ poller \in timers
  /\ ticks[t].pc = "free"
  /\ \A u \in TickIds : u < t => ticks[u].pc # "free"
  /\ now + POLL_INTERVAL <= MaxNow

\* the timer fires and the session is gone: the poller is stopped and the
\* notice is sent
TickSessionGone(t) ==
  /\ CanFire(t)
  /\ ~sessionExists
  /\ now' = now + POLL_INTERVAL
  /\ poller' = stopOutputPoller(poller)
  /\ timers' = IF poller' = 0 THEN ClearInterval(timers, poller) ELSE timers
  /\ noticeSends' = noticeSends + 1
  /\ ticks' = [ticks EXCEPT ![t] = [FreeTick EXCEPT !.pc = "notice", !.gen = poller]]
  /\ UNCHANGED << probe, userLastMessage, forwarding, installed, lastOutcome, script, terminal, sessionExists, gen, states, msgs, pendingSkillRequests,
                  promptSends, consumed, turns, idleEdits, retired, failures >>

\* the timer fires: capture, compare, and on to the first await
TickStart(t) ==
  /\ CanFire(t)
  /\ sessionExists
  /\ now' = now + POLL_INTERVAL
  /\ \E i \in terminal..Len(script) :
       /\ terminal' = i
       /\ LET w0 == [World(t, poller) EXCEPT !.tk = [FreeTick EXCEPT !.gen = poller]]
              w == Begin(w0, captureOutput(i, TICK_LINES), now')
          IN /\ Commit(t, poller, w)
             /\ idleEdits' = IF w.st.lastContent # states[poller].lastContent
                             THEN 0 ELSE idleEdits
  /\ UNCHANGED << probe, userLastMessage, forwarding, installed, lastOutcome, script, sessionExists, gen, poller, timers, msgs, consumed, noticeSends,
                  turns, retired, failures >>

\* a catch block that clears the interval
CaughtStopsTimer(timer) == 0

\* catch (error) { console.error(...) }: the interval is left running
Caught(timer) == timer

\* the timer fires and the capture (or the parse) throws into the outer
\* catch
TickCaptureFails(t) ==
  /\ CanFire(t)
  /\ sessionExists
  /\ Outcome(FALSE)
  /\ now' = now + POLL_INTERVAL
  /\ poller' = Caught(poller)
  /\ timers' = IF poller' = 0 THEN ClearInterval(timers, poller) ELSE timers
  /\ UNCHANGED << probe, userLastMessage, forwarding, installed, lastOutcome, script,
                  terminal, sessionExists, gen, states, ticks, msgs,
                  pendingSkillRequests, promptSends, consumed, noticeSends, turns,
                  idleEdits, retired >>

\* the notice was sent, or the send threw into the outer catch
NoticeDone(t) ==
  /\ ticks[t].pc = "notice"
  /\ ticks' = [ticks EXCEPT ![t] = FreeTick]
  /\ UNCHANGED << probe, userLastMessage, forwarding, installed, lastOutcome, script, terminal, sessionExists, now, gen, poller, timers, states, msgs,
                  pendingSkillRequests, promptSends, consumed, noticeSends, turns,
                  idleEdits, retired, failures >>

\* responseMessage.edit({components: filteredComponents}) returns or throws
IdleDone(t, ok) ==
  /\ ticks[t].pc = "idle"
  /\ Outcome(ok)
  /\ LET g == ticks[t].gen
         w0 == World(t, g)
         w1 == IF ok THEN [w0 EXCEPT !.st.buttonsRemoved = TRUE] ELSE w0
     IN Commit(t, g, AfterIdle(w1))
  /\ msgs' = IF ok THEN [msgs EXCEPT ![ticks[t].target].stop = FALSE] ELSE msgs
  /\ idleEdits' = IF ok THEN idleEdits + 1 ELSE idleEdits
  /\ retired' = (retired \/ ok)
  /\ UNCHANGED << probe, userLastMessage, forwarding, installed, lastOutcome, script, terminal, sessionExists, now, gen, poller, timers, consumed,
                  noticeSends, turns >>

\* channel.sendTyping() returns or throws
TypingDone(t) ==
  /\ ticks[t].pc = "typing"
  /\ ticks' = [ticks EXCEPT ![t] = FreeTick]
  /\ UNCHANGED << probe, userLastMessage, forwarding, installed, lastOutcome, script, terminal, sessionExists, now, gen, poller, timers, states, msgs,
                  pendingSkillRequests, promptSends, consumed, noticeSends, turns,
                  idleEdits, retired, failures >>

\* the send of the confirmation prompt returns, or throws into the outer catch
SkillDone(t, ok) ==
  /\ ticks[t].pc = "skill"
  /\ Outcome(ok)
  /\ LET g == ticks[t].gen
         w0 == World(t, g)
     IN Commit(t, g, IF ok THEN SkillLoop(w0, ticks[t].skillIdx + 1) ELSE Done(w0))
  /\ UNCHANGED << probe, userLastMessage, forwarding, installed, lastOutcome, script, terminal, sessionExists, now, gen, poller, timers, msgs, consumed,
                  noticeSends, turns, idleEdits, retired >>

\* a message that always carries the Stop button
MsgWithStop(text, control) == [content |-> text, stop |-> TRUE]

\* a message as the channel shows it
Msg(text, control) == [content |-> text, stop |-> control]

\* the write of a finalized chunk returns or throws (the error is ignored)
ChunkDone(t, ok) ==
  /\ ticks[t].pc = "chunk"
  /\ Outcome(ok)
  /\ LET g == ticks[t].gen
         w0 == World(t, g)
         splitPoint == SplitPoint(ticks[t].displayContent)
         chunkContent == Slice(ticks[t].displayContent, 0, splitPoint)
         w1 == [w0 EXCEPT !.st.currentMessageStart = @ + splitPoint,
                          !.st.responseMessage = 0,
                          !.tk.displayContent = Trim(SliceFrom(@, splitPoint)),
                          !.tk.chunks = Append(@, chunkContent),
                          !.tk.failed = @ \/ ~ok]
     IN /\ Commit(t, g, SplitLoop(w1))
        /\ msgs' = IF ~ok THEN msgs
                   ELSE IF ticks[t].target # 0
                        THEN [msgs EXCEPT ![ticks[t].target] = Msg(chunkContent, FALSE)]
                        ELSE Append(msgs, Msg(chunkContent, FALSE))
  /\ UNCHANGED << probe, userLastMessage, forwarding, installed, lastOutcome, script, terminal, sessionExists, now, gen, poller, timers, consumed,
                  noticeSends, turns, idleEdits, retired >>

\* the final write (edit of the in-flight message, or create) returns or throws
FinalDone(t, ok) ==
  /\ ticks[t].pc = "final"
  /\ Outcome(ok)
  /\ LET g == ticks[t].gen
         w0 == World(t, g)
         messageContent == ticks[t].displayContent
         create == ticks[t].target = 0
         w1 == IF ~ok THEN [w0 EXCEPT !.tk.pc = "fallback", !.tk.failed = TRUE]
               ELSE IF create
                    THEN Done([w0 EXCEPT !.st.responseMessage = Len(msgs) + 1,
                                         !.st.awaitingResponse = FALSE])
                    ELSE Done(w0)
     IN /\ Commit(t, g, w1)
        /\ msgs' = IF ~ok THEN msgs
                   ELSE IF create THEN Append(msgs, Msg(messageContent, TRUE))
                   ELSE [msgs EXCEPT ![ticks[t].target] = Msg(messageContent, TRUE)]
  /\ UNCHANGED << probe, userLastMessage, forwarding, installed, lastOutcome, script, terminal, sessionExists, now, gen, poller, timers, consumed,
                  noticeSends, turns, idleEdits, retired >>

\* the fallback create in the catch block returns or throws
FallbackDone(t, ok) ==
  /\ ticks[t].pc = "fallback"
  /\ Outcome(ok)
  /\ LET g == ticks[t].gen
         w0 == World(t, g)
         w1 == IF ok THEN [w0 EXCEPT !.st.responseMessage = Len(msgs) + 1] ELSE w0
     IN /\ Commit(t, g, Done(w1))
        /\ msgs' = IF ok THEN Append(msgs, Msg(ticks[t].displayContent, TRUE)) ELSE msgs
  /\ UNCHANGED << probe, userLastMessage, forwarding, installed, lastOutcome, script, terminal, sessionExists, now, gen, poller, timers, consumed,
                  noticeSends, turns, idleEdits, retired >>

\* ------------------------------------------------------- specifications
\* one session: the user talks and Claude answers
Init == script \in CoreScripts /\ Started

Next ==
  \/ MessageCreate(Guest, Hello)
  \/ MessageForward
  \/ \E t \in TickIds : TickStart(t)
  \/ \E t \in TickIds : TypingDone(t)
  \/ \E t \in TickIds, ok \in BOOLEAN : IdleDone(t, ok)
  \/ \E t \in TickIds, ok \in BOOLEAN : ChunkDone(t, ok)
  \/ \E t \in TickIds, ok \in BOOLEAN : FinalDone(t, ok)
  \/ \E t \in TickIds, ok \in BOOLEAN : FallbackDone(t, ok)

Spec == Init /\ [][Next]_vars

\* sessions come and go
NextLife ==
  \/ SessionEnds
  \/ StartOutputPoller
  \/ \E t \in TickIds : TickSessionGone(t)
  \/ \E t \in TickIds : TickStart(t)
  \/ \E t \in TickIds : NoticeDone(t)
  \/ \E t \in TickIds, ok \in BOOLEAN : IdleDone(t, ok)
  \/ \E t \in TickIds, ok \in BOOLEAN : FinalDone(t, ok)
  \/ \E t \in TickIds, ok \in BOOLEAN : FallbackDone(t, ok)

SpecLife == InitLife /\ [][NextLife]_vars

\* sessions come and go, and captures fail
NextFail ==
  \/ SessionEnds
  \/ StartOutputPoller
  \/ \E t \in TickIds : TickSessionGone(t)
  \/ \E t \in TickIds : TickStart(t)
  \/ \E t \in TickIds : TickCaptureFails(t)
  \/ \E t \in TickIds : NoticeDone(t)
  \/ \E t \in TickIds, ok \in BOOLEAN : IdleDone(t, ok)
  \/ \E t \in TickIds, ok \in BOOLEAN : FinalDone(t, ok)
  \/ \E t \in TickIds, ok \in BOOLEAN : FallbackDone(t, ok)

SpecFail == InitLife /\ [][NextFail]_vars

\* one session: Claude asks for skills and the user answers
InitSkill == script \in SkillScripts /\ Started

NextSkill ==
  \/ \E c \in SkillReplies : pendingSkillRequests # "" /\ MessageCreate(Guest, c)
  \/ \E t \in TickIds : TickStart(t)
  \/ \E t \in TickIds, ok \in BOOLEAN : IdleDone(t, ok)
  \/ \E t \in TickIds, ok \in BOOLEAN : SkillDone(t, ok)
  \/ \E t \in TickIds, ok \in BOOLEAN : FinalDone(t, ok)
  \/ \E t \in TickIds, ok \in BOOLEAN : FallbackDone(t, ok)

SpecSkill == InitSkill /\ [][NextSkill]_vars

\* one session: Claude prints one long answer
InitSplit == script \in SplitScripts /\ Started

NextSplit ==
  \/ \E t \in TickIds : TickStart(t)
  \/ \E t \in TickIds, ok \in BOOLEAN : IdleDone(t, ok)
  \/ \E t \in TickIds, ok \in BOOLEAN : ChunkDone(t, ok)
  \/ \E t \in TickIds, ok \in BOOLEAN : FinalDone(t, ok)
  \/ \E t \in TickIds, ok \in BOOLEAN : FallbackDone(t, ok)

SpecSplit == InitSplit /\ [][NextSplit]_vars

\* one session: Claude prints a request marker with little or no prose
InitMarker == script \in MarkerScripts /\ Started

NextMarker ==
  \/ MessageCreate(Guest, Hello)
  \/ MessageForward
  \/ \E t \in TickIds : TickStart(t)
  \/ \E t \in TickIds : TypingDone(t)
  \/ \E t \in TickIds, ok \in BOOLEAN : IdleDone(t, ok)
  \/ \E t \in TickIds, ok \in BOOLEAN : SkillDone(t, ok)
  \/ \E t \in TickIds, ok \in BOOLEAN : FinalDone(t, ok)
  \/ \E t \in TickIds, ok \in BOOLEAN : FallbackDone(t, ok)

SpecMarker == InitMarker /\ [][NextMarker]_vars

\* one session: Claude's answer grows from tick to tick
InitGrow == script \in GrowScripts /\ Started

NextGrow ==
  \/ \E t \in TickIds : TickStart(t)
  \/ \E t \in TickIds, ok \in BOOLEAN : IdleDone(t, ok)
  \/ \E t \in TickIds, ok \in BOOLEAN : ChunkDone(t, ok)
  \/ \E t \in TickIds, ok \in BOOLEAN : FinalDone(t, ok)
  \/ \E t \in TickIds, ok \in BOOLEAN : FallbackDone(t, ok)

SpecGrow == InitGrow /\ [][NextGrow]_vars

\* one session whose buffer holds an answer when the poller starts and
\* does not change
InitScroll == script \in ScrollScripts /\ Started

SpecScroll == InitScroll /\ [][NextGrow]_vars

\* one session in which the answer on the pane gets shorter
InitShrink == script \in ShrinkScripts /\ Started

SpecShrink == InitShrink /\ [][NextGrow]_vars


\* ------------------------------------------------------ pure functions
\* the bot is idle: no session, no poller; a function is called on an input
Bench(inputs) ==
  /\ script = << ScreenEcho >>
  /\ Fresh
  /\ sessionExists = FALSE
  /\ gen = 0
  /\ poller = 0
  /\ timers = {}
  /\ states = [g \in Gens |-> NewState(0, << >>)]
  /\ probe \in { [NoProbe EXCEPT !.input = x] : x \in inputs }

\* the call returns
Returns(result) ==
  /\ ~probe.done
  /\ probe' = [probe EXCEPT !.output = result, !.done = TRUE]
  /\ UNCHANGED << userLastMessage, forwarding, installed, lastOutcome, script, terminal, sessionExists, now, gen, poller, timers, states, ticks, msgs,
                  pendingSkillRequests, promptSends, consumed, noticeSends, turns,
                  idleEdits, retired, failures >>

\* captures of up to MaxLines lines
RECURSIVE SeqsUpTo(_, _)
SeqsUpTo(S, n) ==
  IF n = 0 THEN { << >> }
  ELSE LET shorter == SeqsUpTo(S, n - 1)
       IN shorter \cup { Append(q, x) : q \in shorter, x \in S }

ParseLines ==
  { Echo(Str("a", 2)), Prompt, Lead(Str("a", 3)), Plain(Str("b", 3)),
    Tool("Read", Str("c", 4)), Tool("Bash", Str("b", 2)) }

InitParse == Bench(SeqsUpTo(ParseLines, MaxLines))

ParseClaudeOutput == Returns(parseClaudeOutput(probe.input))

NextParse == ParseClaudeOutput

SpecParse == InitParse /\ [][NextParse]_vars

\* runs of up to MaxCalls tool calls
SummaryCalls ==
  { ToolCall("Read", Str("c", n)) : n \in 0..4 } \cup { ToolCall("Bash", Str("b", 2)) }

InitSummary == Bench(SeqsUpTo(SummaryCalls, MaxCalls))

FormatToolCallSummary == Returns(formatToolCallSummary(probe.input))

NextSummary == FormatToolCallSummary

SpecSummary == InitSummary /\ [][NextSummary]_vars

\* formatForDiscord is called on a list of segments: prose (one empty, one
\* with white space around it) and tool calls of three tools
MaxSegments == 4

FormatSegments ==
  { TextSegment(Str("x", 2)),
    TextSegment(EmptyText),
    TextSegment(Cat(Cat(Str(" ", 1), Str("y", 1)), Str("\n", 1))),
    ToolCall("Read", Str("a", 1)),
    ToolCall("Edit", Str("a", 1)),
    ToolCall("Bash", EmptyText) }

InitFormat == Bench(SeqsUpTo(FormatSegments, MaxSegments))

FormatForDiscord == Returns(formatForDiscord(probe.input))

NextFormat == FormatForDiscord

SpecFormat == InitFormat /\ [][NextFormat]_vars

\* one session: Claude asks for a skill and users write what they like
InitReply == script \in ReplyScripts /\ Started

NextReply ==
  \/ \E c \in Contents : MessageCreate(Guest, c)
  \/ MessageForward
  \/ \E t \in TickIds : TickStart(t)
  \/ \E t \in TickIds, ok \in BOOLEAN : IdleDone(t, ok)
  \/ \E t \in TickIds, ok \in BOOLEAN : SkillDone(t, ok)
  \/ \E t \in TickIds, ok \in BOOLEAN : FinalDone(t, ok)
  \/ \E t \in TickIds, ok \in BOOLEAN : FallbackDone(t, ok)

SpecReply == InitReply /\ [][NextReply]_vars

\* one session, its poller idle: users write while time passes
InitRate == script = << ScreenEcho >> /\ Started

NextRate ==
  \/ \E u \in Users, c \in Contents : MessageCreate(u, c)
  \/ MessageForward
  \/ Wait

SpecRate == InitRate /\ [][NextRate]_vars

\* ----------------------------------------------------------- properties
\* the step is the timer firing into slot t
TickBegins(t) == CanFire(t) /\ now' # now

\* the step is one of invocation t
Steps(t) == ticks'[t] # ticks[t]

\* some message carries the Stop control after the step and not before
GainsStop ==
  \E m \in 1..Len(msgs') : msgs'[m].stop /\ (m > Len(msgs) \/ ~msgs[m].stop)

\* the step creates no message and rewrites no content
NoContentWrite ==
  /\ Len(msgs') = Len(msgs)
  /\ \A m \in 1..Len(msgs) : msgs'[m].content = msgs[m].content

RECURSIVE SumLen(_)
SumLen(pieces) == IF pieces = << >> THEN 0 ELSE TLen(Head(pieces)) + SumLen(Tail(pieces))

\* text is the pieces in order, up to whitespace between and around them
RECURSIVE Reassembles(_, _)
Reassembles(text, pieces) ==
  IF pieces = << >> THEN Trim(text) = EmptyText
  ELSE LET piece == Head(pieces)
           k == TLen(piece)
       IN \/ Take(text, k) = piece /\ Reassembles(Drop(text, k), Tail(pieces))
          \/ /\ Take(TrimStart(text), k) = piece
             /\ Reassembles(Drop(TrimStart(text), k), Tail(pieces))

\* the pieces an invocation has cut so far, and what is left to write
Pieces(t) == Append(ticks[t].chunks, ticks[t].displayContent)

\* C1: every message content, finalized chunk or final tail, is at most
\* 2000 characters long, and the chunks an invocation cuts, in the order it
\* writes them and with the tail last, are the live text up to whitespace
\* removed at the cuts.
C1_ChunksReassemble ==
  /\ \A m \in 1..Len(msgs) : TLen(msgs[m].content) <= DISCORD_LIMIT
  /\ \A t \in TickIds :
       ticks[t].pc \in {"chunk", "final", "fallback"} =>
         /\ \A i \in 1..Len(ticks[t].chunks) : TLen(ticks[t].chunks[i]) <= DISCORD_LIMIT
         /\ ticks[t].pc # "chunk" => TLen(ticks[t].displayContent) <= DISCORD_LIMIT
         /\ Reassembles(ticks[t].liveTail, Pieces(t))

\* an invocation has cut two chunks, lost whitespace at a cut, and is at its
\* final write
C1_Witness ==
  \E t \in TickIds :
    /\ ticks[t].pc = "final"
    /\ Len(ticks[t].chunks) = 2
    /\ SumLen(Pieces(t)) < TLen(ticks[t].liveTail)

\* C2 (as stated): when a write of a tick has thrown, the state is as it
\* was before the tick: lastContent is not the capture of the tick, the
\* offset has not moved and the live message is the one the tick found.
C2_FailureLeavesState ==
  \A t \in TickIds :
    ticks[t].failed =>
      /\ states[ticks[t].gen].lastContent # ticks[t].outputForCompare
      /\ ticks[t].chunks = << >>

\* C3 (as stated): once the Stop control was retired in a turn, no later
\* step of the turn gives a message the control.
C3_NeverBack == [][retired /\ retired' => ~GainsStop]_vars

\* C3 (amended): once the Stop control was retired in a turn, a message
\* gets the control again only from the final write of an invocation that
\* found the buffer changed.
C3_BackOnlyOnChange ==
  [][retired /\ retired' /\ GainsStop =>
       \E t \in TickIds : /\ Steps(t)
                          /\ ticks[t].pc \in {"final", "fallback"}
                          /\ ticks[t].contentChanged]_vars

\* the control was retired and is back on the live message
C3_Witness ==
  /\ retired
  /\ poller # 0
  /\ states[poller].responseMessage # 0
  /\ msgs[states[poller].responseMessage].stop
  /\ ~states[poller].buttonsRemoved

\* C4 (as stated): while the buffer stays unchanged, the idle edit that
\* removes the Stop control succeeds at most once.
C4_OneIdleEdit == idleEdits <= 1

\* C5: a tick whose cleaned capture equals lastContent is flagged unchanged,
\* goes no further than the idle edit, and neither it nor its idle edit
\* creates a message or rewrites a content.
C5_UnchangedWritesNothing ==
  [][\A t \in TickIds :
       /\ (TickBegins(t) /\ sessionExists
             /\ cleanForCompare(captureOutput(terminal', TICK_LINES)) = states[poller].lastContent)
          => /\ ~ticks'[t].contentChanged
             /\ ticks'[t].pc \in {"free", "idle"}
             /\ NoContentWrite
       /\ (Steps(t) /\ ticks[t].pc = "idle" /\ ~ticks[t].contentChanged)
          => /\ ticks'[t].pc = "free"
             /\ NoContentWrite]_vars

\* the last tick was an unchanged one, the pane has shown the answer in
\* other colours, and the message is as the tick that created it left it
C5_Witness ==
  /\ terminal = 3
  /\ turns = 0
  /\ states[poller].lastUpdateTime < now
  /\ script[3] = ScreenShortColoured
  /\ script[3] # script[2]
  /\ states[poller].lastContent = cleanForCompare(script[2])
  /\ InFlight = {}
  /\ Len(msgs) = 1
  /\ msgs[1].content = FormattedContent(cleanForCompare(script[2]))

\* C6: dispatching a user message resets accumulatedResponse, the offset,
\* the live message and buttonsRemoved, sets awaitingResponse and stamps
\* lastUpdateTime, and leaves lastContent, the timer and the pane alone.
C6_MarkUserInput ==
  [][turns' # turns /\ poller # 0 =>
       /\ states'[poller].accumulatedResponse = EmptyText
       /\ states'[poller].currentMessageStart = 0
       /\ states'[poller].responseMessage = 0
       /\ states'[poller].buttonsRemoved = FALSE
       /\ states'[poller].awaitingResponse = TRUE
       /\ states'[poller].lastUpdateTime = now
       /\ states'[poller].lastContent = states[poller].lastContent
       /\ poller' = poller
       /\ terminal' = terminal
       /\ ticks' = ticks]_vars

\* a user message has just been dispatched after a split answer
C6_Witness ==
  /\ turns > 0
  /\ Len(msgs) >= 2
  /\ states[poller].awaitingResponse
  /\ states[poller].responseMessage = 0
  /\ states[poller].currentMessageStart = 0
  /\ states[poller].accumulatedResponse = EmptyText
  /\ states[poller].lastUpdateTime = now

\* C7: a tick that finds the session gone unregisters the poller and sends
\* one notice; a notice is sent by nothing else, and no tick begins while
\* no poller is registered.
C7_SessionGone ==
  /\ [](noticeSends <= gen)
  /\ [][/\ \A t \in TickIds : TickBegins(t) /\ ~sessionExists =>
                                poller' = 0 /\ noticeSends' = noticeSends + 1
        /\ noticeSends' # noticeSends => poller # 0 /\ ~sessionExists /\ poller' = 0
        /\ now' # now => poller # 0]_vars

\* the session went away and a tick has noticed and returned
C7_Witness ==
  /\ noticeSends = 1
  /\ poller = 0
  /\ timers = {}
  /\ ~sessionExists
  /\ InFlight = {}

\* C8 (as stated): every source named by a marker that a tick has looped
\* over has been prompted for.
C8_EverySourcePrompted ==
  \A t \in TickIds :
    ticks[t].pc \in {"final", "fallback"} =>
      \A i \in 1..Len(SkillMatches(ticks[t].outputForCompare)) :
        promptSends[SkillMatches(ticks[t].outputForCompare)[i]] > 0

\* C8 (amended): a prompt is sent only when no request is pending on the
\* channel, and makes its source the pending one; so while a request is
\* pending no marker, of that source or of another, is prompted for.
C8_OnePendingPerChannel ==
  [][\A s \in Sources :
       promptSends'[s] # promptSends[s] =>
         /\ pendingSkillRequests = ""
         /\ pendingSkillRequests' = s
         /\ promptSends'[s] = promptSends[s] + 1]_vars

\* a tick has looped over the markers of A and B while A was pending
C8_Witness ==
  /\ pendingSkillRequests = "A"
  /\ promptSends["A"] = 1
  /\ promptSends["B"] = 0
  /\ \E t \in TickIds : /\ ticks[t].pc = "final"
                        /\ Len(SkillMatches(ticks[t].outputForCompare)) = 2

\* C9 (as stated): at most one message carries the Stop control.
C9_OneStop == Cardinality(StopMessages) <= 1

\* C10 (as stated): at most one invocation of processOutput is in flight.
C10_NoOverlap == Cardinality(InFlight) <= 1

---------------------------------------------------------------------------
\* Text character by character, for the functions that work through
\* regular expressions.  A text is a sequence of characters; the
\* characters with no printable form carry their names.
ESC == "ESC"
BEL == "BEL"
ZWSP == "ZWSP"
BACKTICK == "BT"
CR == "CR"
LF == "LF"
SP == "SP"

DigitChars == << "0", "1", "2", "3", "4", "5", "6", "7", "8", "9" >>
IsDigit(c) == \E d \in 1..10 : DigitChars[d] = c
DigitValue(c) == (CHOOSE d \in 1..10 : DigitChars[d] = c) - 1
IsParam(c) == IsDigit(c) \/ c = ";"
Letters ==
  { "a", "b", "c", "d", "e", "f", "g", "h", "i", "j", "k", "l", "m", "n", "o",
    "p", "q", "r", "s", "t", "u", "v", "w", "x", "y", "z",
    "A", "B", "C", "D", "E", "F", "G", "H", "I", "J", "K", "L", "M", "N", "O",
    "P", "Q", "R", "S", "T", "U", "V", "W", "X", "Y", "Z" }

\* the character at i, or "" past either end
At(s, i) == IF i >= 1 /\ i <= Len(s) THEN s[i] ELSE ""

StartsWith(s, i, literal) == \A k \in 1..Len(literal) : At(s, i + k - 1) = literal[k]

\* the first position from i on whose character fails In: where a greedy
\* run of the class ends
RunEnd(s, i, In(_)) ==
  LET stops == { j \in i..Len(s) : ~In(s[j]) }
  IN IF stops = {} THEN Len(s) + 1
     ELSE CHOOSE j \in stops : \A k \in stops : j <= k

\* NaN is -1: no comparison of the filter accepts it
NaN == -1

RECURSIVE ParseDigits(_, _)
ParseDigits(ds, acc) ==
  IF ds = << >> THEN acc ELSE ParseDigits(Tail(ds), acc * 10 + DigitValue(Head(ds)))

parseInt(ds) == IF ds = << >> THEN NaN ELSE ParseDigits(ds, 0)

RECURSIVE NumberChars(_)
NumberChars(n) ==
  IF n < 10 THEN << DigitChars[n + 1] >>
  ELSE NumberChars(n \div 10) \o << DigitChars[(n % 10) + 1] >>

\* String.prototype.split on one separator character
RECURSIVE SplitOn(_, _, _, _)
SplitOn(s, sep, parts, cur) ==
  IF s = << >> THEN Append(parts, cur)
  ELSE IF Head(s) = sep THEN SplitOn(Tail(s), sep, Append(parts, cur), << >>)
  ELSE SplitOn(Tail(s), sep, parts, Append(cur, Head(s)))

RECURSIVE JoinChars(_, _)
JoinChars(parts, sep) ==
  IF parts = << >> THEN << >>
  ELSE IF Len(parts) = 1 THEN parts[1]
  ELSE parts[1] \o << sep >> \o JoinChars(Tail(parts), sep)

\* String.prototype.replace with a global pattern: MatchLen(s, i) is the
\* length of the match that starts at i (0: none), Replacement(s, i, n)
\* what is put in its place; the scan goes on after the match, over the
\* original text
ReplaceAll(s, MatchLen(_, _), Replacement(_, _, _)) ==
  LET out[i \in 1..(Len(s) + 1)] ==
        IF i > Len(s) THEN << >>
        ELSE LET n == MatchLen(s, i)
             IN IF n > 0 THEN Replacement(s, i, n) \o out[i + n]
                ELSE << s[i] >> \o out[i + 1]
  IN out[1]

Removed(s, i, n) == << >>

\* ---- convertAnsiForDiscord ----
color256ToBasic(n) ==
  IF n < 8 THEN 30 + n
  ELSE IF n < 16 THEN 30 + (n - 8)
  ELSE IF n >= 232 THEN (IF n - 232 < 12 THEN 30 ELSE 37)
  ELSE LET idx == n - 16
           r == idx \div 36
           g == (idx % 36) \div 6
           b == idx % 6
       IN IF r >= 3 /\ g >= 3 /\ b <= 2 THEN 33
          ELSE IF r <= 1 /\ g >= 3 /\ b >= 3 THEN 36
          ELSE IF r >= 3 /\ g <= 2 /\ b >= 3 THEN 35
          ELSE IF g >= 3 /\ r <= 2 /\ b <= 2 THEN 32
          ELSE IF r >= 3 /\ g <= 2 /\ b <= 2 THEN 31
          ELSE IF b >= 3 /\ r <= 2 /\ g <= 2 THEN 34
          ELSE IF r + g + b >= 10 THEN 37
          ELSE IF r + g + b >= 5 THEN 37
          ELSE 30

rgbToBasic(ri, gi, bi) ==
  IF ri >= 150 /\ gi >= 150 /\ bi < 100 THEN 33
  ELSE IF ri < 100 /\ gi >= 150 /\ bi >= 150 THEN 36
  ELSE IF ri >= 150 /\ gi < 100 /\ bi >= 150 THEN 35
  ELSE IF gi >= 150 /\ ri < 120 /\ bi < 120 THEN 32
  ELSE IF ri >= 150 /\ gi < 120 /\ bi < 120 THEN 31
  ELSE IF bi >= 150 /\ ri < 120 /\ gi < 120 THEN 34
  ELSE IF ri + gi + bi >= 500 THEN 37
  ELSE IF ri + gi + bi >= 250 THEN 37
  ELSE 30

Sgr(codes) == << ESC, "[" >> \o JoinChars([k \in 1..Len(codes) |-> NumberChars(codes[k])], ";") \o << "m" >>

Fg256 == << ESC, "[", "3", "8", ";", "5", ";" >>
Bg256 == << ESC, "[", "4", "8", ";", "5", ";" >>
FgRgb == << ESC, "[", "3", "8", ";", "2", ";" >>
BgRgb == << ESC, "[", "4", "8", ";", "2", ";" >>

\* /\x1b\[38;5;(\d+)m/ and /\x1b\[48;5;(\d+)m/
Len256(s, i, lead) ==
  IF ~StartsWith(s, i, lead) THEN 0
  ELSE LET d == i + Len(lead)
           e == RunEnd(s, d, IsDigit)
       IN IF e > d /\ At(s, e) = "m" THEN e - i + 1 ELSE 0

LenFg256(s, i) == Len256(s, i, Fg256)
LenBg256(s, i) == Len256(s, i, Bg256)
Index256(s, i, n) == parseInt(SubSeq(s, i + 7, i + n - 2))
ToFg256(s, i, n) == Sgr(<< color256ToBasic(Index256(s, i, n)) >>)
ToBg256(s, i, n) == Sgr(<< color256ToBasic(Index256(s, i, n)) + 10 >>)

\* /\x1b\[38;2;(\d+);(\d+);(\d+)m/ and /\x1b\[48;2;(\d+);(\d+);(\d+)m/
LenRgb(s, i, lead) ==
  IF ~StartsWith(s, i, lead) THEN 0
  ELSE LET r1 == i + Len(lead)
           r2 == RunEnd(s, r1, IsDigit)
           g1 == r2 + 1
           g2 == RunEnd(s, g1, IsDigit)
           b1 == g2 + 1
           b2 == RunEnd(s, b1, IsDigit)
       IN IF /\ r2 > r1 /\ At(s, r2) = ";"
             /\ g2 > g1 /\ At(s, g2) = ";"
             /\ b2 > b1 /\ At(s, b2) = "m"
          THEN b2 - i + 1 ELSE 0

LenFgRgb(s, i) == LenRgb(s, i, FgRgb)
LenBgRgb(s, i) == LenRgb(s, i, BgRgb)
RgbOf(s, i, n) ==
  LET parts == SplitOn(SubSeq(s, i + 7, i + n - 2), ";", << >>, << >>)
  IN rgbToBasic(parseInt(parts[1]), parseInt(parts[2]), parseInt(parts[3]))
ToFgRgb(s, i, n) == Sgr(<< RgbOf(s, i, n) >>)
ToBgRgb(s, i, n) == Sgr(<< RgbOf(s, i, n) + 10 >>)

\* /\x1b\[([0-9;]+)m/
LenSgr(s, i) ==
  IF ~StartsWith(s, i, << ESC, "[" >>) THEN 0
  ELSE LET e == RunEnd(s, i + 2, IsParam)
       IN IF e > i + 2 /\ At(s, e) = "m" THEN e - i + 1 ELSE 0

\* the codes the filter keeps for one code of the input
ValidCode(code) ==
  IF code = 0 \/ code = 1 \/ code = 4 THEN << code >>
  ELSE IF code >= 30 /\ code <= 37 THEN << code >>
  ELSE IF code >= 40 /\ code <= 47 THEN << code >>
  ELSE IF code = 39 \/ code = 49 THEN << 0 >>
  ELSE IF code >= 90 /\ code <= 97 THEN << code - 60 >>
  ELSE IF code >= 100 /\ code <= 107 THEN << code - 60 >>
  ELSE << >>

RECURSIVE ValidCodes(_)
ValidCodes(codes) ==
  IF codes = << >> THEN << >> ELSE ValidCode(Head(codes)) \o ValidCodes(Tail(codes))

ToSupported(s, i, n) ==
  LET params == SplitOn(SubSeq(s, i + 2, i + n - 2), ";", << >>, << >>)
      codes == [k \in 1..Len(params) |-> parseInt(params[k])]
      validCodes == ValidCodes(codes)
  IN IF Len(validCodes) = 0 THEN << >> ELSE Sgr(validCodes)

NotM(c) == c # "m"

\* /\x1b\[[^m]*[^0-9m][^m]*m/
LenMalformed(s, i) ==
  IF ~StartsWith(s, i, << ESC, "[" >>) THEN 0
  ELSE LET e == RunEnd(s, i + 2, NotM)
       IN IF e <= Len(s) /\ \E k \in (i + 2)..(e - 1) : ~IsDigit(s[k])
          THEN e - i + 1 ELSE 0

\* /\x1b\[\?[0-9;]*[a-zA-Z]/
LenPrivateMode(s, i) ==
  IF ~StartsWith(s, i, << ESC, "[", "?" >>) THEN 0
  ELSE LET e == RunEnd(s, i + 3, IsParam)
       IN IF At(s, e) \in Letters THEN e - i + 1 ELSE 0

\* /\x1b\[[0-9;]*[A-LN-Za-ln-z]/
LenNonSgr(s, i) ==
  IF ~StartsWith(s, i, << ESC, "[" >>) THEN 0
  ELSE LET e == RunEnd(s, i + 2, IsParam)
       IN IF At(s, e) \in Letters \ { "m", "M" } THEN e - i + 1 ELSE 0

\* /\x1b[78]/
LenCursorSave(s, i) == IF At(s, i) = ESC /\ At(s, i + 1) \in { "7", "8" } THEN 2 ELSE 0

\* /\x1b\([AB0-2]/
LenCharset(s, i) ==
  IF StartsWith(s, i, << ESC, "(" >>) /\ At(s, i + 2) \in { "A", "B", "0", "1", "2" }
  THEN 3 ELSE 0

\* /\x1b[=>]/
LenKeypad(s, i) == IF At(s, i) = ESC /\ At(s, i + 1) \in { "=", ">" } THEN 2 ELSE 0

NotBelEsc(c) == c # BEL /\ c # ESC

\* /\x1b\][^\x07\x1b]*(?:\x07|\x1b\\)/
LenOsc(s, i) ==
  IF ~StartsWith(s, i, << ESC, "]" >>) THEN 0
  ELSE LET e == RunEnd(s, i + 2, NotBelEsc)
       IN IF At(s, e) = BEL THEN e - i + 1
          ELSE IF At(s, e) = ESC /\ At(s, e + 1) = "\\" THEN e - i + 2
          ELSE 0

\* /\x1b(?!\[)/
LenLoneEsc(s, i) == IF At(s, i) = ESC /\ At(s, i + 1) # "[" THEN 1 ELSE 0

\* /\x1b\[(?![0-9;]*m)/
LenOpenCsi(s, i) ==
  IF StartsWith(s, i, << ESC, "[" >>) /\ At(s, RunEnd(s, i + 2, IsParam)) # "m"
  THEN 2 ELSE 0

\* /(?<!\x1b)\[([0-9;]*)m/
LenOrphan(s, i) ==
  IF At(s, i) = "[" /\ At(s, i - 1) # ESC
  THEN LET e == RunEnd(s, i + 1, IsParam)
       IN IF At(s, e) = "m" THEN e - i + 1 ELSE 0
  ELSE 0

\* /```/ -> '`​``'
LenFence(s, i) == IF StartsWith(s, i, << BACKTICK, BACKTICK, BACKTICK >>) THEN 3 ELSE 0
BrokenFence(s, i, n) == << BACKTICK, ZWSP, BACKTICK, BACKTICK >>

convertAnsiForDiscord(text) ==
  LET t1 == ReplaceAll(text, LenFg256, ToFg256)
      t2 == ReplaceAll(t1, LenBg256, ToBg256)
      t3 == ReplaceAll(t2, LenFgRgb, ToFgRgb)
      t4 == ReplaceAll(t3, LenBgRgb, ToBgRgb)
      t5 == ReplaceAll(t4, LenSgr, ToSupported)
      t6 == ReplaceAll(t5, LenMalformed, Removed)
      t7 == ReplaceAll(t6, LenPrivateMode, Removed)
      t8 == ReplaceAll(t7, LenNonSgr, Removed)
      t9 == ReplaceAll(t8, LenCursorSave, Removed)
      t10 == ReplaceAll(t9, LenCharset, Removed)
      t11 == ReplaceAll(t10, LenKeypad, Removed)
      t12 == ReplaceAll(t11, LenOsc, Removed)
      t13 == ReplaceAll(t12, LenLoneEsc, Removed)
      t14 == ReplaceAll(t13, LenOpenCsi, Removed)
      t15 == ReplaceAll(t14, LenOrphan, Removed)
  IN ReplaceAll(t15, LenFence, BrokenFence)

\* texts put together from up to MaxPieces pieces of terminal output
RECURSIVE Flatten(_)
Flatten(pieces) == IF pieces = << >> THEN << >> ELSE Head(pieces) \o Flatten(Tail(pieces))

AnsiPieces ==
  { << ESC >>, << ESC, "[" >>, << ESC, "7" >>, << "[" >>, << "m" >>, << ";" >>,
    << "1" >>, << "5" >>, << "9", "1" >>, << "3", "9" >>,
    << "3", "8", ";", "5", ";", "1", "9", "6" >>,
    << "4", "8", ";", "2", ";", "2", "5", "5", ";", "0", ";", "0" >>,
    << "J" >>, << "a" >>, << "[", "5", "m" >> }

InitAnsi == Bench({ Flatten(q) : q \in SeqsUpTo(AnsiPieces, MaxPieces) })

ConvertAnsiForDiscord == Returns(convertAnsiForDiscord(probe.input))

NextAnsi == ConvertAnsiForDiscord

SpecAnsi == InitAnsi /\ [][NextAnsi]_vars

\* texts with code fences in them
FencePieces == { << BACKTICK >>, << BACKTICK, BACKTICK >>, << "a" >>, << ESC, "[", "1", "m" >>, << LF >> }

InitFence == Bench({ Flatten(q) : q \in SeqsUpTo(FencePieces, MaxPieces) })

SpecFence == InitFence /\ [][NextAnsi]_vars


\* ------------------------------------------ parseClaudeOutput on text
(* Here a line is a text.  Its characters are single characters and, for  *)
(* the words the parser's patterns look for, whole words standing as one  *)
(* character each (a tool name, 'Web Search', '(MCP)', a terminal hint);  *)
(* the glyphs have names.  A word counts as one character of length, so   *)
(* the lines handed to the parser keep such words out of the targets.     *)
LEAD == "LEAD"               \* the glyph before Claude's prose and tool calls
PROMPTGLYPH == "PROMPT"      \* the glyph of the input box
TOOLOUT == "TOOLOUT"         \* the glyph before a tool's output
BAR == "BAR"                 \* the box-drawing vertical bar
PIPE == "|"
RULE == "RULE"               \* the box-drawing horizontal line
STATUS == "STATUS"           \* the glyph of the status bar
ELLIPSIS == "ELLIPSIS"
DQ == "DQ"                   \* a double quote
SQ == "SQ"                   \* a single quote
Quotes == { DQ, SQ }

Hints ==
  { "bypass permissions", "Context left", "shift+Tab", "ctrl+o", "ctrl+",
    "to expand", "? for shortcuts" }

\* the alternatives of the tool summary pattern and of the tool call pattern
SummaryVerbs == { "Read", "Edit", "Write", "Bash", "Glob", "Grep", "Task", "Searched" }
CallNames ==
  { "Bash", "Read", "Edit", "Write", "Glob", "Grep", "Task", "WebFetch", "WebSearch",
    "AskUserQuestion" }

\* what a word is to a pattern with the i flag
Fold(ch) ==
  CASE ch = "read" -> "Read"
    [] ch = "searched" -> "Searched"
    [] ch = "web search" -> "Web Search"
    [] ch = "(mcp)" -> "(MCP)"
    [] OTHER -> ch

\* \w
IsWordChar(ch) ==
  ch \in { "x", "y", "1", "_", "read", "searched", "files" } \cup SummaryVerbs \cup CallNames

First(t) == IF t = EmptyText THEN "" ELSE t[1].ch
CharAt(t, i) == First(Slice(t, i, i + 1))
Includes(t, S) == \E i \in DOMAIN t : t[i].ch \in S

\* the texts of parts, one after the other
RECURSIVE Line(_)
Line(parts) == IF parts = << >> THEN EmptyText ELSE Cat(Head(parts), Line(Tail(parts)))

\* .replace(/["']/g, ''), .replace(/_/g, ' ')
RECURSIVE RemoveChars(_, _)
RemoveChars(t, S) ==
  IF t = EmptyText THEN EmptyText
  ELSE Cat(IF t[1].ch \in S THEN EmptyText ELSE << t[1] >>, RemoveChars(Tail(t), S))

RECURSIVE ReplaceChar(_, _, _)
ReplaceChar(t, from, to) ==
  IF t = EmptyText THEN EmptyText
  ELSE Cat(<< Run(IF t[1].ch = from THEN to ELSE t[1].ch, t[1].n) >>,
           ReplaceChar(Tail(t), from, to))

\* .replace(/\)$/, '')
StripClosing(t) ==
  IF t # EmptyText /\ t[Len(t)].ch = ")" THEN Take(t, TLen(t) - 1) ELSE t

\* the longest prefix of word characters
RECURSIVE WordPrefix(_)
WordPrefix(t) ==
  IF t = EmptyText \/ ~IsWordChar(t[1].ch) THEN EmptyText
  ELSE << t[1] >> \o WordPrefix(Tail(t))

\* ^●?\s*
AfterLead(clean) == TrimStart(IF First(clean) = LEAD THEN Drop(clean, 1) ELSE clean)

NoMatch == [ok |-> FALSE, name |-> "", target |-> EmptyText]
Match(toolName, toolTarget) == [ok |-> TRUE, name |-> toolName, target |-> toolTarget]

\* (.+?)["']?\) : the lengths at which the lazy group can end
LazyEnds(r) ==
  { n \in 1..(TLen(r) - 1) :
      \/ CharAt(r, n) = ")"
      \/ CharAt(r, n) \in Quotes /\ CharAt(r, n + 1) = ")" }

Least(S) == CHOOSE i \in S : \A j \in S : i <= j

\* /^●?\s*Web Search\s*\(["']?(.+?)["']?\)/i and the clean-up of the query
webSearchMatch(clean) ==
  LET a == AfterLead(clean)
      b == TrimStart(Drop(a, 1))
      rest == Drop(b, 1)
      unquoted == IF First(rest) \in Quotes THEN Drop(rest, 1) ELSE rest
      from == IF LazyEnds(unquoted) # {} THEN unquoted ELSE rest
  IN IF Fold(First(a)) = "Web Search" /\ First(b) = "(" /\ LazyEnds(from) # {}
     THEN LET group == Take(from, Least(LazyEnds(from)))
              query == Trim(RemoveChars(StripClosing(group), Quotes))
          IN Match("WebSearch", ToolTarget(query))
     ELSE NoMatch

\* /^●?\s*(\w+)\s*-\s*([\w_]+)\s*\(MCP\)/i; the target is not shortened
mcpMatch(clean) ==
  LET a == AfterLead(clean)
      provider == WordPrefix(a)
      b == TrimStart(Drop(a, TLen(provider)))
      c == TrimStart(Drop(b, 1))
      method == WordPrefix(c)
      d == TrimStart(Drop(c, TLen(method)))
  IN IF /\ provider # EmptyText
        /\ First(b) = "-"
        /\ method # EmptyText
        /\ Fold(First(d)) = "(MCP)"
     THEN Match("MCP", Line(<< provider, Str(":", 1), Str(" ", 1),
                              ReplaceChar(method, "_", " ") >>))
     ELSE NoMatch

\* the index of the first c in t, or -1
RECURSIVE IndexOf(_, _)
IndexOf(t, c) ==
  IF t = EmptyText THEN -1
  ELSE IF t[1].ch = c THEN 0
  ELSE LET rest == IndexOf(Tail(t), c) IN IF rest < 0 THEN -1 ELSE t[1].n + rest

\* .replace(/\(ctrl\+[a-z] to expand\)/gi, ''), once: the lines of the
\* model carry the hint at most once
ExpandHint == Line(<< Str("(", 1), Str("ctrl+o", 1), Str(" ", 1), Str("to expand", 1), Str(")", 1) >>)

\* the runs at which the hint's 'ctrl+o' stands
HintsAt(t) ==
  { j \in 2..(Len(t) - 3) :
      /\ t[j - 1].ch = "("
      /\ t[j] = Run("ctrl+o", 1)
      /\ t[j + 1] = Run(" ", 1)
      /\ t[j + 2] = Run("to expand", 1)
      /\ t[j + 3].ch = ")" }

RemoveExpandHint(t) ==
  IF HintsAt(t) = {} THEN t
  ELSE LET j == Least(HintsAt(t))
       IN Line(<< SubSeq(t, 1, j - 2), Str("(", t[j - 1].n - 1),
                  Str(")", t[j + 3].n - 1), SubSeq(t, j + 4, Len(t)) >>)

\* .replace(/\(.*to expand.*\)/gi, ''): from the first parenthesis that has
\* the hint and a closing parenthesis after it, to the last closing one
RemoveExpandGroup(t) ==
  LET open == IndexOf(t, "(")
      hint == IndexOf(t, "to expand")
      close == LastIndexOf(t, ")")
  IN IF open >= 0 /\ hint > open /\ close > hint
     THEN Cat(Take(t, open), Drop(t, close + 1))
     ELSE t

\* .replace(/^\d+\s*(files?|patterns?)\s*/i, '')
RemoveCount(t) ==
  LET digits == IF First(t) = "1" THEN t[1].n ELSE 0
      a == TrimStart(Drop(t, digits))
  IN IF digits > 0 /\ First(a) = "files" THEN TrimStart(Drop(a, 1)) ELSE t

\* /^●?\s*(Read|Edit|Write|Bash|Glob|Grep|Task|Searched)\s*[:(]?\s*(.*)$/i
\* and the clean-up of the target
toolSummaryMatch(clean) ==
  LET a == AfterLead(clean)
      b == TrimStart(Drop(a, 1))
      c == TrimStart(IF First(b) \in { ":", "(" } THEN Drop(b, 1) ELSE b)
      toolName == IF Fold(First(a)) = "Searched" THEN "Grep" ELSE First(a)
      toolTarget ==
        Trim(RemoveChars(RemoveCount(RemoveExpandGroup(RemoveExpandHint(c))), Quotes))
  IN IF Fold(First(a)) \in SummaryVerbs THEN Match(toolName, ToolTarget(toolTarget))
     ELSE NoMatch

\* /^●?\s*(Bash|Read|...|AskUserQuestion)\s*\((.*)$/ and the clean-up
toolCallMatch(clean) ==
  LET a == AfterLead(clean)
      b == TrimStart(Drop(a, 1))
      toolTarget == Trim(RemoveChars(StripClosing(Drop(b, 1)), Quotes))
  IN IF First(a) \in CallNames /\ First(b) = "("
     THEN Match(First(a), ToolTarget(toolTarget))
     ELSE NoMatch

\* /^[─━]{5,}$/
IsSeparator(clean) == Len(clean) = 1 /\ clean[1].ch = RULE /\ clean[1].n >= 5

\* the status bar and the terminal's hints
IsStatus(clean) == First(clean) = STATUS \/ Includes(clean, Hints)

\* raw JSON
IsRawData(clean) ==
  \/ First(clean) \in { "[", "{", DQ, ELLIPSIS }
  \/ clean \in { Str("}", 1), Str("]", 1) }

\* a bar rule that does not look at the flag
IsBarOutputAlways(clean, inToolOutput) == First(clean) \in { BAR, PIPE }

\* (clean.startsWith('│') || clean.startsWith('|')) && inToolOutput
IsBarOutput(clean, inToolOutput) == First(clean) \in { BAR, PIPE } /\ inToolOutput

\* a continuation test that does not look at the flag
ContinuesInToolOutput(isText, inToolOutput) == isText

\* currentSegment?.type === 'text' && !inToolOutput
Continues(isText, inToolOutput) == isText /\ ~inToolOutput

\* the branches of the loop body with the prose branch ahead of the tool
\* patterns
ClassifyProseFirst(clean, inToolOutput) ==
  IF clean = EmptyText THEN "blank"
  ELSE IF IsSeparator(clean) THEN "separator"
  ELSE IF IsStatus(clean) THEN "status"
  ELSE IF First(clean) = PROMPTGLYPH THEN "prompt"
  ELSE IF First(clean) = TOOLOUT THEN "toolout"
  ELSE IF IsBarOutput(clean, inToolOutput) THEN "bar"
  ELSE IF IsRawData(clean) THEN "rawdata"
  ELSE IF First(clean) = LEAD THEN "text"
  ELSE IF webSearchMatch(clean).ok THEN "websearch"
  ELSE IF mcpMatch(clean).ok THEN "mcp"
  ELSE IF toolSummaryMatch(clean).ok THEN "summary"
  ELSE IF toolCallMatch(clean).ok THEN "call"
  ELSE "continuation"

\* the branches of the loop body with the tool patterns and the tool-output
\* glyph ahead of the discard rules
ClassifyDiscardLast(clean, inToolOutput) ==
  IF clean = EmptyText THEN "blank"
  ELSE IF First(clean) = TOOLOUT THEN "toolout"
  ELSE IF webSearchMatch(clean).ok THEN "websearch"
  ELSE IF mcpMatch(clean).ok THEN "mcp"
  ELSE IF toolSummaryMatch(clean).ok THEN "summary"
  ELSE IF toolCallMatch(clean).ok THEN "call"
  ELSE IF IsSeparator(clean) THEN "separator"
  ELSE IF IsStatus(clean) THEN "status"
  ELSE IF First(clean) = PROMPTGLYPH THEN "prompt"
  ELSE IF IsBarOutput(clean, inToolOutput) THEN "bar"
  ELSE IF IsRawData(clean) THEN "rawdata"
  ELSE IF First(clean) = LEAD THEN "text"
  ELSE "continuation"

\* the branch of the loop body that takes the line
Classify(clean, inToolOutput) ==
  IF clean = EmptyText THEN "blank"
  ELSE IF IsSeparator(clean) THEN "separator"
  ELSE IF IsStatus(clean) THEN "status"
  ELSE IF First(clean) = PROMPTGLYPH THEN "prompt"
  ELSE IF First(clean) = TOOLOUT THEN "toolout"
  ELSE IF IsBarOutput(clean, inToolOutput) THEN "bar"
  ELSE IF IsRawData(clean) THEN "rawdata"
  ELSE IF webSearchMatch(clean).ok THEN "websearch"
  ELSE IF mcpMatch(clean).ok THEN "mcp"
  ELSE IF toolSummaryMatch(clean).ok THEN "summary"
  ELSE IF toolCallMatch(clean).ok THEN "call"
  ELSE IF First(clean) = LEAD THEN "text"
  ELSE "continuation"

\* the loop's variables: segments, currentSegment (cur, when open),
\* inToolOutput, and the index i of the next line
LoopStart(startIdx) ==
  [ segments |-> << >>, open |-> FALSE, cur |-> NoSegment, inToolOutput |-> FALSE,
    i |-> startIdx ]

\* one pass of the loop body, over line
LoopBody(ps, line) ==
  LET clean == Trim(line)
      rule == Classify(clean, ps.inToolOutput)
      isText == ps.open /\ ps.cur.type = "text"
      saved == IF ps.open THEN Append(ps.segments, ps.cur) ELSE ps.segments
      m == CASE rule = "websearch" -> webSearchMatch(clean)
             [] rule = "mcp" -> mcpMatch(clean)
             [] rule = "summary" -> toolSummaryMatch(clean)
             [] rule = "call" -> toolCallMatch(clean)
             [] OTHER -> NoMatch
      next == [ps EXCEPT !.i = @ + 1]
  IN CASE rule = "blank" ->
            IF isText THEN [next EXCEPT !.cur.content = Cat(@, Str("\n", 1))] ELSE next
       [] rule \in { "separator", "status", "prompt", "bar", "rawdata" } -> next
       [] rule = "toolout" -> [next EXCEPT !.inToolOutput = TRUE]
       [] rule \in { "websearch", "mcp", "summary", "call" } ->
            [next EXCEPT !.segments = saved,
                         !.open = TRUE,
                         !.cur = [ToolCall(m.name, m.target) EXCEPT !.content = clean],
                         !.inToolOutput = TRUE]
       [] rule = "text" ->
            [next EXCEPT !.segments = saved,
                         !.open = TRUE,
                         !.cur = TextSegment(TrimStart(Drop(clean, 1))),
                         !.inToolOutput = FALSE]
       [] OTHER ->
            IF Continues(isText, ps.inToolOutput)
            THEN [next EXCEPT !.cur.content = Cat(Cat(@, Str("\n", 1)), clean)]
            ELSE next

\* startIdx: the index after the last prompt line with content, 1 if none
RECURSIVE StartIdx(_, _)
StartIdx(lines, i) ==
  IF i = 0 THEN 1
  ELSE LET clean == Trim(lines[i])
       IN IF First(clean) = PROMPTGLYPH /\ TrimStart(Drop(clean, 1)) # EmptyText
          THEN i + 1
          ELSE StartIdx(lines, i - 1)

\* 'if (currentSegment) segments.push(currentSegment)' after the loop
LoopEnd(ps) == IF ps.open THEN Append(ps.segments, ps.cur) ELSE ps.segments

RECURSIVE Loop(_, _)
Loop(lines, ps) == IF ps.i > Len(lines) THEN LoopEnd(ps) ELSE Loop(lines, LoopBody(ps, lines[ps.i]))

\* parseClaudeOutput on the lines of a text
parseClaudeOutputText(lines) == Loop(lines, LoopStart(StartIdx(lines, Len(lines))))

\* lines of the pane
Chr(c) == Str(c, 1)
Sp == Str(" ", 1)
ProseLine == Line(<< Chr(LEAD), Sp, Str("x", 3) >>)
BashLine == Line(<< Chr(LEAD), Sp, Chr("Bash"), Chr("("), Str("x", 2), Chr(")") >>)
OutputLine == Line(<< Sp, Sp, Chr(TOOLOUT), Sp, Str("y", 2) >>)
PlainLine == Str("y", 2)
EchoLine == Line(<< Chr(PROMPTGLYPH), Sp, Str("x", 2) >>)
TableLine == Line(<< Chr(BAR), Sp, Chr("x"), Sp, Chr(BAR) >>)

ContextLines == { ProseLine, BashLine, OutputLine, PlainLine, EchoLine }

SegmentLines ==
  ContextLines \cup
  { EmptyText,
    Str(" ", 2),
    TableLine,
    Line(<< Chr(PIPE), Sp, Chr("x") >>),
    Line(<< Chr(BAR), Sp, Chr("ctrl+") >>),
    Str(RULE, 5),
    Str(RULE, 4),
    Chr(PROMPTGLYPH),
    Line(<< Chr(STATUS), Sp, Chr("x") >>),
    Line(<< Chr("{"), Chr("x") >>),
    Line(<< Sp, Chr(LEAD), Chr("y") >>),
    Line(<< Chr(LEAD), Sp, Chr("WebFetch"), Chr("("), Chr(DQ), Str("x", 60), Chr(DQ), Chr(")") >>),
    Line(<< Chr(LEAD), Sp, Chr("WebSearch"), Chr("("), Str("x", 50), Chr(")") >>),
    Line(<< Chr(LEAD), Sp, Chr("Web Search"), Chr("("), Chr(DQ), Str("x", 2), Chr(DQ), Chr(")") >>),
    Line(<< Chr(LEAD), Chr("web search"), Sp, Chr("("), Str("x", 51), Chr(")"), Chr(")") >>),
    Line(<< Chr(LEAD), Sp, Str("x", 2), Sp, Chr("-"), Sp, Chr("y"), Chr("_"), Chr("y"), Sp, Chr("(MCP)") >>),
    Line(<< Chr(LEAD), Sp, Chr("Read"), Sp, Chr("-"), Sp, Str("x", 2), Sp, Chr("(MCP)"), Chr("("), Chr("y"), Chr(")") >>),
    Line(<< Chr(LEAD), Sp, Str("x", 2), Sp, Chr("-"), Sp, Str("y", 60), Sp, Chr("(MCP)") >>),
    Line(<< Chr(LEAD), Sp, Chr("Read"), Sp, Chr("1"), Sp, Chr("files") >>),
    Line(<< Chr(LEAD), Sp, Chr("Read"), Sp, Chr("1"), Sp, Chr("files"), Sp, ExpandHint >>),
    Line(<< Chr(LEAD), Sp, Chr("read"), Chr(":"), Sp, Str("x", 3) >>),
    Line(<< Chr("Searched"), Sp, Str("x", 55) >>),
    Line(<< Chr(LEAD), Sp, Chr("Task"), Str("x", 2), Sp, Str("y", 2) >>),
    Line(<< Chr(TOOLOUT), Sp, Chr("+"), Chr("1"), Sp, ExpandHint >>),
    Line(<< Chr(LEAD), Sp, Str("x", 2), Sp, Chr("ctrl+") >>) }

\* captures: up to MaxContext lines that set the loop's variables, then a
\* line of any kind
SegmentInputs ==
  { Append(context, line) : context \in SeqsUpTo(ContextLines, MaxContext),
                            line \in SegmentLines }

\* parseClaudeOutput is called on a capture
InitSegment ==
  /\ script = << ScreenEcho >>
  /\ Fresh
  /\ sessionExists = FALSE
  /\ gen = 0
  /\ poller = 0
  /\ timers = {}
  /\ states = [g \in Gens |-> NewState(0, << >>)]
  /\ probe \in { [ input |-> lines,
                   output |-> LoopStart(StartIdx(lines, Len(lines))),
                   done |-> FALSE ] : lines \in SegmentInputs }

\* the loop takes the next line
SegmentLine ==
  /\ ~probe.done
  /\ probe.output.i <= Len(probe.input)
  /\ probe' = [probe EXCEPT !.output = LoopBody(probe.output, probe.input[probe.output.i])]
  /\ UNCHANGED << userLastMessage, forwarding, installed, lastOutcome, script, terminal,
                  sessionExists, now, gen, poller, timers, states, ticks, msgs,
                  pendingSkillRequests, promptSends, consumed, noticeSends, turns,
                  idleEdits, retired, failures >>

\* the loop is over: the open segment is pushed and the segments returned
SegmentsReturned ==
  /\ ~probe.done
  /\ probe.output.i > Len(probe.input)
  /\ probe' = [probe EXCEPT !.output = [probe.output EXCEPT !.segments = LoopEnd(probe.output),
                                                              !.open = FALSE],
                            !.done = TRUE]
  /\ UNCHANGED << userLastMessage, forwarding, installed, lastOutcome, script, terminal,
                  sessionExists, now, gen, poller, timers, states, ticks, msgs,
                  pendingSkillRequests, promptSends, consumed, noticeSends, turns,
                  idleEdits, retired, failures >>

NextSegment == SegmentLine \/ SegmentsReturned

SpecSegment == InitSegment /\ [][NextSegment]_vars

\* ------------------------------------ the map-based session manager
\* A Map is the sequence of its entries << key, value >> in insertion
\* order; get of a key that is not there is undefined.
UNDEFINED == "undefined"
MapHas(m, k) == \E i \in DOMAIN m : m[i][1] = k
MapGet(m, k) ==
  IF MapHas(m, k) THEN m[CHOOSE i \in DOMAIN m : m[i][1] = k][2] ELSE UNDEFINED
MapSet(m, k, v) ==
  IF MapHas(m, k) THEN [i \in DOMAIN m |-> IF m[i][1] = k THEN << k, v >> ELSE m[i]]
  ELSE Append(m, << k, v >>)
MapDelete(m, k) == SelectSeq(m, LAMBDA e : e[1] # k)

ManagedSessions == { "s1", "s2" }
ManagedChannels == { "c1", "c2" }

\* new SessionManager(): both maps empty; tmux holds the sessions that
\* run and file what sessions.json holds, as pairs << id, channelId >>
NewManager(tmux, file) ==
  [ channelMap |-> << >>, reverseMap |-> << >>, tmux |-> tmux, file |-> file ]

\* saveSessionsToFile: the entries of channelMap whose session getSession
\* finds
saveSessionsToFile(m) ==
  [m EXCEPT !.file = SelectSeq(m.channelMap, LAMBDA e : e[1] \in m.tmux)]

\* createSession of the manager with the maps: throws, with nothing
\* stored, when the session exists or tmux does not start it
createSessionMapped(m, sessionId, channelId, spawned) ==
  IF sessionId \in m.tmux \/ ~spawned THEN m
  ELSE saveSessionsToFile([m EXCEPT !.tmux = @ \cup { sessionId },
                                    !.channelMap = MapSet(@, sessionId, channelId),
                                    !.reverseMap = MapSet(@, channelId, sessionId)])

linkChannel(m, sessionId, channelId) ==
  saveSessionsToFile([m EXCEPT !.channelMap = MapSet(@, sessionId, channelId),
                               !.reverseMap = MapSet(@, channelId, sessionId)])

getSessionByChannel(m, channelId) == MapGet(m.reverseMap, channelId)

getChannelBySession(m, sessionId) == MapGet(m.channelMap, sessionId)

unlinkChannel(m, channelId) ==
  LET sessionId == MapGet(m.reverseMap, channelId)
  IN IF sessionId = UNDEFINED THEN m
     ELSE saveSessionsToFile([m EXCEPT !.channelMap = MapDelete(@, sessionId),
                                       !.reverseMap = MapDelete(@, channelId)])

\* killSession: throws, with the maps as they were, when the session does
\* not exist or tmux fails to kill it
killSession(m, sessionId, killed) ==
  IF sessionId \notin m.tmux \/ ~killed THEN m
  ELSE LET channelId == MapGet(m.channelMap, sessionId)
           unmapped == IF channelId # UNDEFINED THEN MapDelete(m.reverseMap, channelId)
                       ELSE m.reverseMap
       IN saveSessionsToFile([m EXCEPT !.tmux = @ \ { sessionId },
                                       !.reverseMap = unmapped,
                                       !.channelMap = MapDelete(@, sessionId)])

\* restoreSessions: the saved sessions that still run are put into both
\* maps, in the order of the file
RECURSIVE RestoreFrom(_, _)
RestoreFrom(m, i) ==
  IF i > Len(m.file) THEN m
  ELSE LET session == m.file[i]
       IN IF session[1] \in m.tmux
          THEN RestoreFrom([m EXCEPT !.channelMap = MapSet(@, session[1], session[2]),
                                     !.reverseMap = MapSet(@, session[2], session[1])],
                           i + 1)
          ELSE RestoreFrom(m, i + 1)

restoreSessions(m) == RestoreFrom(m, 1)

\* the manager is probe.output; the bot is otherwise idle
InitManager ==
  /\ script = << ScreenEcho >>
  /\ Fresh
  /\ sessionExists = FALSE
  /\ gen = 0
  /\ poller = 0
  /\ timers = {}
  /\ states = [g \in Gens |-> NewState(0, << >>)]
  /\ probe = [ input |-> << >>, output |-> NewManager({}, << >>), done |-> FALSE ]

Manage(m) ==
  /\ probe' = [probe EXCEPT !.output = m]
  /\ UNCHANGED << userLastMessage, forwarding, installed, lastOutcome, script, terminal,
                  sessionExists, now, gen, poller, timers, states, ticks, msgs,
                  pendingSkillRequests, promptSends, consumed, noticeSends, turns,
                  idleEdits, retired, failures >>

CreateSessionMapped ==
  \E sessionId \in ManagedSessions, channelId \in ManagedChannels, spawned \in BOOLEAN :
    Manage(createSessionMapped(probe.output, sessionId, channelId, spawned))

LinkChannel ==
  \E sessionId \in ManagedSessions, channelId \in ManagedChannels :
    Manage(linkChannel(probe.output, sessionId, channelId))

UnlinkChannel ==
  \E channelId \in ManagedChannels : Manage(unlinkChannel(probe.output, channelId))

KillSession ==
  \E sessionId \in ManagedSessions, killed \in BOOLEAN :
    Manage(killSession(probe.output, sessionId, killed))

RestoreSessions == Manage(restoreSessions(probe.output))

\* the bot is started again: a new manager, the sessions and the file stay
Startup == Manage(NewManager(probe.output.tmux, probe.output.file))

NextManager ==
  \/ CreateSessionMapped
  \/ LinkChannel
  \/ UnlinkChannel
  \/ KillSession
  \/ RestoreSessions
  \/ Startup

SpecManager == InitManager /\ [][NextManager]_vars

\* ---------------------------------------------- parse, then format
\* lines of a turn that names files: a.ts and b.ts are written out, the
\* prose is "Updated both files." shortened to its letters u
FileA == Line(<< Chr("a"), Chr("."), Chr("t"), Chr("s") >>)
FileB == Line(<< Chr("b"), Chr("."), Chr("t"), Chr("s") >>)
CallLine(glyph, toolName, target) ==
  Line(<< glyph, Chr(toolName), Chr("("), target, Chr(")") >>)
Glyphs == { EmptyText, Cat(Chr(LEAD), Sp) }
UpdatedLine == Line(<< Chr(LEAD), Sp, Str("u", 7) >>)
PipelineLines ==
  { CallLine(g, n, f) : g \in Glyphs, n \in {"Read", "Edit"}, f \in {FileA, FileB} }
    \cup { UpdatedLine }

PipelineInputs ==
  { << l1, l2, l3, UpdatedLine >> : l1 \in PipelineLines, l2 \in PipelineLines,
                                    l3 \in PipelineLines }

InitPipeline == Bench(PipelineInputs)

\* formatForDiscord(parseClaudeOutput(buffer))
Pipeline == Returns(formatForDiscord(parseClaudeOutputText(probe.input)))

NextPipeline == Pipeline

SpecPipeline == InitPipeline /\ [][NextPipeline]_vars


\* the last line of a capture that echoes user input with content, 0 if none
Boundary(lines) ==
  LET echoes == { i \in 1..Len(lines) : lines[i].k = "echo" }
  IN IF echoes = {} THEN 0 ELSE CHOOSE i \in echoes : \A j \in echoes : j <= i

AfterBoundary(lines) == SubSeq(lines, Boundary(lines) + 1, Len(lines))

\* C11: the segments of a capture are those of its lines after the last
\* echo line with content, parsed from their first line on (the whole
\* capture when there is no such line; an empty prompt is no boundary);
\* every tool call among them is a tool line after the boundary and every
\* text segment begins with a lead line after it.
C11_OnlyAfterLastEcho ==
  probe.done =>
    LET after == AfterBoundary(probe.input) IN
    /\ probe.output = ParseFrom(after, 1, << >>, FALSE, NoSegment, FALSE)
    /\ \A i \in 1..Len(probe.output) :
         \E j \in 1..Len(after) :
           \/ /\ probe.output[i].type = "tool_call"
              /\ after[j].k = "tool"
              /\ probe.output[i].toolTarget = after[j].body
           \/ /\ probe.output[i].type = "text"
              /\ after[j].k = "lead"
              /\ Take(probe.output[i].content, TLen(after[j].body)) = after[j].body

\* a capture with a tool call in an earlier turn, a later echo, an answer
\* and the empty prompt below it has been parsed to the answer alone
C11_Witness ==
  /\ probe.done
  /\ probe.input = << Echo(Str("a", 2)), Tool("Read", Str("c", 4)), Echo(Str("a", 2)),
                      Lead(Str("a", 3)), Prompt >>
  /\ probe.output = << TextSegment(Str("a", 3)) >>

\* the tool names of a run of calls
ToolsOf(calls) == { calls[i].toolName : i \in 1..Len(calls) }

\* the calls of a run made with one tool, and those of them with a target
CallsOf(calls, tool) == { i \in 1..Len(calls) : calls[i].toolName = tool }
NamedCallsOf(calls, tool) == { i \in CallsOf(calls, tool) : calls[i].toolTarget # EmptyText }

\* C12: in the summary of a run of tool calls there is one line per tool;
\* the line of a tool with one call shows its target (the name alone when
\* it has none), the line of a tool with 2 or 3 calls lists the non-empty
\* targets, or the count when there is none, and the line of a tool with 4
\* or more calls is the count.
C12_SummaryThresholds ==
  probe.done =>
    LET calls == probe.input
        n(tool) == Cardinality(CallsOf(calls, tool))
        named(tool) == SelectSeq(calls, LAMBDA c : c.toolName = tool /\ c.toolTarget # EmptyText)
        listed(tool) == [i \in 1..Len(named(tool)) |-> named(tool)[i].toolTarget]
        line(tool) ==
          IF n(tool) >= 4 \/ (n(tool) >= 2 /\ NamedCallsOf(calls, tool) = {})
          THEN [toolName |-> tool, form |-> "count", count |-> n(tool), targets |-> << >>]
          ELSE IF NamedCallsOf(calls, tool) = {}
          THEN [toolName |-> tool, form |-> "bare", count |-> 1, targets |-> << >>]
          ELSE [toolName |-> tool, form |-> "targets", count |-> n(tool),
                targets |-> listed(tool)]
        order == ToolOrder(calls, {})
    IN /\ { order[i] : i \in 1..Len(order) } = ToolsOf(calls)
       /\ probe.output =
            JoinWith([i \in 1..Len(order) |-> RenderSummary(line(order[i]))], Str("\n", 1))

\* four reads of four different files have been summarised as a count
C12_Witness ==
  /\ probe.done
  /\ probe.input = [i \in 1..4 |-> ToolCall("Read", Str("c", i))]
  /\ probe.output = RenderSummary([toolName |-> "Read", form |-> "count", count |-> 4,
                                   targets |-> << >>])

LenAnySgr(s, i) ==
  IF StartsWith(s, i, << ESC, "[" >>) /\ At(s, RunEnd(s, i + 2, IsParam)) = "m"
  THEN RunEnd(s, i + 2, IsParam) - i + 1 ELSE 0

\* /\r/
LenCr(s, i) == IF At(s, i) = CR THEN 1 ELSE 0

IsLf(c) == c = LF

\* /\n{3,}/ -> '\n\n'
LenNewlines(s, i) ==
  LET n == RunEnd(s, i, IsLf) - i IN IF n >= 3 THEN n ELSE 0
TwoNewlines(s, i, n) == << LF, LF >>

\* what String.prototype.trim takes for white space, of the characters here
IsSpace(c) == c \in { SP, LF, CR }

\* String.prototype.trim
trim(s) ==
  LET first == RunEnd(s, 1, IsSpace)
      inked == { j \in 1..Len(s) : ~IsSpace(s[j]) }
  IN IF inked = {} THEN << >>
     ELSE SubSeq(s, first, CHOOSE j \in inked : \A k \in inked : k <= j)

cleanForCompareText(text) ==
  trim(ReplaceAll(ReplaceAll(ReplaceAll(text, LenAnySgr, Removed), LenCr, Removed),
                  LenNewlines, TwoNewlines))

ComparePieces ==
  { << ESC >>, << "[" >>, << "0" >>, << "m" >>, << ESC, "[", "3", "1", ";", "1", "m" >>,
    << CR >>, << LF >>, << LF, LF >>, << SP >>, << "a" >> }

InitCompare == Bench({ Flatten(q) : q \in SeqsUpTo(ComparePieces, MaxPieces) })

CleanForCompare == Returns(cleanForCompareText(probe.input))

NextCompare == CleanForCompare

SpecCompare == InitCompare /\ [][NextCompare]_vars

---------------------------------------------------------------------------
\* The session manager: tmux sessions named by convention.  A path is a
\* text whose characters are "/" and the pieces of names.
Sep == "/"
Homedir == << Sep, "home" >>
Cwd == << Sep, "srv" >>
SESSION_PREFIX == << "disco_" >>

expandPath(path) ==
  IF path # << >> /\ path[1] = "~" THEN Homedir \o Tail(path) ELSE path

\* the segments that remain of a path: "" and "." go, ".." takes the
\* segment before it along
RECURSIVE Normalise(_, _)
Normalise(segs, acc) ==
  IF segs = << >> THEN acc
  ELSE LET seg == Head(segs)
       IN IF seg = << >> \/ seg = << "." >> THEN Normalise(Tail(segs), acc)
          ELSE IF seg = << ".." >>
          THEN Normalise(Tail(segs), IF acc = << >> THEN acc ELSE SubSeq(acc, 1, Len(acc) - 1))
          ELSE Normalise(Tail(segs), Append(acc, seg))

SegmentsOf(path) ==
  LET absolute == IF path # << >> /\ path[1] = Sep THEN path ELSE Cwd \o << Sep >> \o path
  IN Normalise(SplitOn(absolute, Sep, << >>, << >>), << >>)

\* path.resolve
resolve(path) ==
  LET segs == SegmentsOf(path)
  IN IF segs = << >> THEN << Sep >>
     ELSE Flatten([k \in 1..Len(segs) |-> << Sep >> \o segs[k]])

setAllowedPaths(paths) == [k \in 1..Len(paths) |-> resolve(expandPath(paths[k]))]

isPathAllowedByPrefix(allowedPaths, targetPath) ==
  \/ Len(allowedPaths) = 0
  \/ \E k \in 1..Len(allowedPaths) : StartsWith(resolve(targetPath), 1, allowedPaths[k])

isPathAllowed(allowedPaths, targetPath) ==
  \/ Len(allowedPaths) = 0
  \/ LET resolved == resolve(targetPath)
     IN \E k \in 1..Len(allowedPaths) :
          \/ StartsWith(resolved, 1, allowedPaths[k] \o << Sep >>)
          \/ resolved = allowedPaths[k]

makeSessionId(guildId, channelId) == guildId \o << "_" >> \o channelId

getTmuxName(sessionId) == SESSION_PREFIX \o sessionId

\* tmux has-session -t name
sessionExistsInTmux(sessions, sessionId) == getTmuxName(sessionId) \in sessions

ValidChannelName(channelName) ==
  /\ channelName # << >>
  /\ \A k \in 1..Len(channelName) : channelName[k] \notin { "/", "\\" }
  /\ channelName[1] # "." /\ channelName[1] # ".."

\* createSession for arguments a in a process with the allow-list and the
\* tmux sessions given; spawned tells whether tmux new-session succeeds
createSession(a, spawned) ==
  LET sessionId == makeSessionId(a.guildId, a.channelId)
      tmuxName == getTmuxName(sessionId)
      resolvedBase == resolve(expandPath(a.baseDirectory))
      failure(message) ==
        [ threw |-> message, sessions |-> a.sessions, tmuxName |-> << >>,
          attachCommand |-> << >>, directory |-> << >>, id |-> << >> ]
  IN IF ~isPathAllowed(setAllowedPaths(a.allowedPaths), resolvedBase)
     THEN failure("Directory not in allowed paths")
     ELSE IF sessionExistsInTmux(a.sessions, sessionId)
     THEN failure("Session for this channel already exists")
     ELSE IF ~ValidChannelName(a.channelName)
     THEN failure("Invalid channel name")
     ELSE IF ~spawned
     THEN failure("Failed to create session")
     ELSE [ threw |-> "", sessions |-> a.sessions \cup { tmuxName },
            tmuxName |-> tmuxName,
            attachCommand |-> << "tmux attach -t " >> \o tmuxName,
            directory |-> resolvedBase \o << Sep >> \o a.channelName,
            id |-> sessionId ]

\* directories written with up to MaxDepth pieces
DirPieces == { << Sep >>, << "projects" >>, << "-evil" >>, << "home" >>, << ".." >>, << "~" >> }
Directories == { Flatten(q) : q \in SeqsUpTo(DirPieces, MaxDepth) } \ { << >> }
Projects == << Sep, "projects" >>
AllowLists ==
  { << >>, << Projects >>, << Projects \o << Sep >> >>, << << "~" >>, Projects >>,
    << << Sep, "home", Sep, "projects" >> >> }
GuildIds == { << "g", "u", "i", "l", "d", "1", "2", "3" >>, << "4", "7", "6", "9" >> }
ChannelIds == { << "channel456" >> }
ChannelNames == { << "test-channel" >>, << ".", "git" >> }

CreateArgs ==
  [ allowedPaths : AllowLists, sessions : { {}, { getTmuxName(makeSessionId(g, c)) : g \in GuildIds, c \in ChannelIds } },
    guildId : GuildIds, channelId : ChannelIds, channelName : ChannelNames,
    baseDirectory : Directories ]

InitSession == Bench(CreateArgs)

CreateSession == \E spawned \in BOOLEAN : Returns(createSession(probe.input, spawned))

NextSession == CreateSession

SpecSession == InitSession /\ [][NextSession]_vars

\* the codes Discord renders
Supported == { 0, 1, 4 } \cup (30..37) \cup (40..47)

\* the escape character at i opens an SGR sequence whose parameters are all
\* supported
SupportedSgrAt(s, i) ==
  /\ At(s, i + 1) = "["
  /\ LET e == RunEnd(s, i + 2, IsParam)
         params == SplitOn(SubSeq(s, i + 2, e - 1), ";", << >>, << >>)
     IN /\ At(s, e) = "m"
        /\ e = i + 2 \/ \A k \in 1..Len(params) : parseInt(params[k]) \in Supported

\* C14: every escape sequence in the text convertAnsiForDiscord returns is
\* an SGR sequence whose parameters are all among 0, 1, 4, 30..37, 40..47.
C14_OnlySupportedSgr ==
  probe.done =>
    \A i \in 1..Len(probe.output) :
      probe.output[i] = ESC => SupportedSgrAt(probe.output, i)

\* C15: the text convertAnsiForDiscord returns has no three backticks in a
\* row.
C15_NoTripleBacktick ==
  probe.done =>
    \A i \in 1..Len(probe.output) :
      ~StartsWith(probe.output, i, << BACKTICK, BACKTICK, BACKTICK >>)

\* C16: the text cleanForCompare returns holds no SGR escape sequence, no
\* carriage return, no three newlines in a row, and neither starts nor ends
\* with white space.
C16_CleanForCompare ==
  probe.done =>
    /\ \A i \in 1..Len(probe.output) :
         /\ LenAnySgr(probe.output, i) = 0
         /\ probe.output[i] # CR
         /\ ~StartsWith(probe.output, i, << LF, LF, LF >>)
    /\ probe.output # << >> =>
         ~IsSpace(probe.output[1]) /\ ~IsSpace(probe.output[Len(probe.output)])

\* the directory is one of the allowed paths or lies under one, segment by
\* segment
EqualOrInside(directory, allowed) ==
  LET ds == SegmentsOf(expandPath(directory))
      as == SegmentsOf(expandPath(allowed))
  IN Len(as) <= Len(ds) /\ SubSeq(ds, 1, Len(as)) = as

\* C18: with an allow-list that is not empty, createSession throws
\* 'Directory not in allowed paths' and starts no tmux session for a
\* directory that is neither an allowed path nor inside one, a directory
\* such as /projects-evil next to /projects included; with an empty
\* allow-list no directory is refused.
C18_PathRestrictions ==
  probe.done =>
    LET a == probe.input
        r == probe.output
    IN /\ ( /\ a.allowedPaths # << >>
            /\ \A k \in 1..Len(a.allowedPaths) :
                 ~EqualOrInside(a.baseDirectory, a.allowedPaths[k]) )
          => r.threw = "Directory not in allowed paths" /\ r.sessions = a.sessions
       /\ a.allowedPaths = << >> => r.threw # "Directory not in allowed paths"

\* /projects-evil is refused under the allow-list /projects and no
\* session is started
C18_Witness ==
  /\ probe.done
  /\ probe.input.allowedPaths = << Projects >>
  /\ probe.input.baseDirectory = << Sep, "projects", "-evil" >>
  /\ probe.input.sessions = {}
  /\ probe.output.threw = "Directory not in allowed paths"
  /\ probe.output.sessions = {}

\* the last four characters of a text (all of it if shorter)
Last4(s) == IF Len(s) <= 4 THEN s ELSE SubSeq(s, Len(s) - 3, Len(s))

\* C19: the session created for guild G and the channel named N is the
\* tmux session disco_{last 4 characters of G}_{N}; attachCommand names
\* that session, and so does every later lookup of the channel.
C19_TmuxName ==
  (probe.done /\ probe.output.threw = "") =>
    LET a == probe.input
        r == probe.output
    IN /\ r.tmuxName = SESSION_PREFIX \o Last4(a.guildId) \o << "_" >> \o a.channelName
       /\ r.attachCommand = << "tmux attach -t " >> \o r.tmuxName
       /\ sessionExistsInTmux(r.sessions, makeSessionId(a.guildId, a.channelId))
       /\ r.tmuxName \in r.sessions

\* C17: a user's message goes on towards the terminal only if at least
\* rateLimitMs lie between it and that user's last accepted message, and
\* it then becomes the last accepted one; a message inside that time is
\* dropped: nothing is queued for the terminal, the user's timestamp stays,
\* and no conversation's turn state is reset.
C17_RateLimit ==
  [][\A u \in Users, c \in Contents :
       MessageCreate(u, c) =>
         LET elapsed == DateNow(now) - userLastMessage[u]
         IN /\ forwarding' > forwarding =>
                 /\ elapsed >= RATE_LIMIT_MS
                 /\ userLastMessage'[u] = DateNow(now)
            /\ ( /\ elapsed < RATE_LIMIT_MS
                 /\ pendingSkillRequests = "" \/ c.word \notin { "confirm", "cancel" } )
               => /\ lastOutcome' = "dropped"
                  /\ UNCHANGED << userLastMessage, forwarding, turns, states, terminal,
                                  msgs >>]_vars

\* u1 wrote again 500 ms after a message of theirs went through, and the
\* second message was dropped
C17_Witness ==
  /\ lastOutcome = "dropped"
  /\ userLastMessage["u1"] = DateNow(0)
  /\ now = RATE_STEP
  /\ turns + forwarding = 1
  /\ userLastMessage["u2"] = 0

\* an invocation of the running poller waits for a send or an edit of
\* output it formatted, and markUserInput has reset the turn state since:
\* accumulatedResponse, which the invocation filled before it waited, is
\* empty again
ResetWhileSuspended(t) ==
  /\ poller # 0
  /\ ticks[t].gen = poller
  /\ ticks[t].pc \in { "chunk", "final", "fallback" }
  /\ states[poller].accumulatedResponse = EmptyText
  /\ states[poller].responseMessage = 0
  /\ states[poller].currentMessageStart = 0

\* C20: when an invocation resumes from a send or an edit during which a
\* user message reset the turn state, it leaves responseMessage cleared and
\* currentMessageStart at 0.
C20_ResetSurvives ==
  [][\A t \in TickIds :
       (ResetWhileSuspended(t) /\ ticks'[t] # ticks[t] /\ poller' = poller)
         => /\ states'[poller].responseMessage = 0
            /\ states'[poller].currentMessageStart = 0]_vars

\* the contents of the messages of ms, one after the other
RECURSIVE Contents_(_, _)
Contents_(ms, skip) ==
  IF ms = << >> THEN EmptyText
  ELSE Cat(Contents_(SubSeq(ms, 1, Len(ms) - 1), skip),
           IF Len(ms) = skip THEN EmptyText ELSE ms[Len(ms)].content)

\* the text without its whitespace
RECURSIVE NonWs(_)
NonWs(s) ==
  IF s = EmptyText THEN EmptyText
  ELSE Cat(IF IsWs(s[1].ch) THEN EmptyText ELSE << s[1] >>, NonWs(Tail(s)))

\* the text of the chunks finalized so far: every message but the in-flight
\* one
Finalized == Contents_(msgs, states[poller].responseMessage)

\* C21: when a tick has taken the live tail of newly formatted text, the
\* text before currentMessageStart is, whitespace apart, the text of the
\* chunks finalized before (no write has failed, no other invocation is in flight and the
\* tail is the one taken at the present offset).
C21_PrefixIsHistory ==
  \A t \in TickIds :
    ( /\ poller # 0
      /\ ticks[t].gen = poller
      /\ ticks[t].pc \in { "chunk", "final" }
      /\ ticks[t].chunks = << >>
      /\ failures = 0
      /\ InFlight = { t }
      /\ ticks[t].liveTail
           = SliceFrom(states[poller].accumulatedResponse,
                       states[poller].currentMessageStart) )
    => NonWs(Take(states[poller].accumulatedResponse,
                  states[poller].currentMessageStart))
         = NonWs(Finalized)

\* C22: currentMessageStart never decreases, except that the step which
\* marks a new user message (a new turn) sets it back to 0.
C22_OffsetMonotone ==
  [][ \A g \in Gens :
        states'[g].currentMessageStart < states[g].currentMessageStart
          => /\ forwarding' < forwarding
             /\ turns' = turns + 1
             /\ g = poller
             /\ states'[g].currentMessageStart = 0 ]_vars

\* a turn began after a chunk of the turn before had been finalized
C22_Witness ==
  /\ turns >= 1
  /\ poller # 0
  /\ states[poller].currentMessageStart = 0
  /\ states[poller].accumulatedResponse = EmptyText
  /\ \E i \in DOMAIN msgs : TLen(msgs[i].content) >= maxMessageLength - NEWLINE_WINDOW

\* the indexes at which c stands in text, counted from from
RECURSIVE IndexesOf(_, _, _)
IndexesOf(text, c, from) ==
  IF text = EmptyText THEN {}
  ELSE (IF text[1].ch = c THEN from..(from + text[1].n - 1) ELSE {})
         \cup IndexesOf(Tail(text), c, from + text[1].n)

\* the indexes of the window (the first 1950 characters of text) at which a
\* newline stands in the window's last 300 characters and past index 100
NewlineCuts(text) ==
  { i \in IndexesOf(text, "\n", 0) :
      /\ i < maxMessageLength
      /\ i > maxMessageLength - NEWLINE_WINDOW
      /\ i > MIN_SPLIT }

\* the greatest member of a set of numbers
Greatest(S) == CHOOSE i \in S : \A j \in S : j <= i

\* where the claim says the cut falls
ExpectedCut(text) ==
  IF NewlineCuts(text) # {} THEN Greatest(NewlineCuts(text)) ELSE maxMessageLength

\* t finalizes a chunk in this step
Cuts(t) ==
  /\ ticks[t].pc = "chunk"
  /\ Len(ticks'[t].chunks) = Len(ticks[t].chunks) + 1

\* C23: the split loop cuts only a tail longer than 1950 characters; the cut
\* is at the last newline of the first 1950 characters when that newline is
\* in the window's last 300 characters and past index 100, and at 1950
\* otherwise; a cut removes at least 1651 characters, and the tail left for
\* the final write has at most 1950.
C23_CutRule ==
  [][ \A t \in TickIds :
        /\ Cuts(t) =>
             LET before == ticks[t].displayContent
                 chunk == ticks'[t].chunks[Len(ticks'[t].chunks)]
             IN /\ TLen(before) > maxMessageLength
                /\ chunk = Take(before, ExpectedCut(before))
                /\ TLen(chunk) >= maxMessageLength - NEWLINE_WINDOW + 1
                /\ TLen(ticks'[t].displayContent) <= TLen(before) - TLen(chunk)
        /\ ticks'[t].pc \in { "final", "fallback" } =>
             TLen(ticks'[t].displayContent) <= maxMessageLength ]_vars

\* both kinds of cut have happened in one tick and the loop has ended
C23_Witness ==
  \E t \in TickIds :
    /\ ticks[t].pc = "final"
    /\ Len(ticks[t].chunks) = 2
    /\ TLen(ticks[t].chunks[1]) = maxMessageLength - NEWLINE_WINDOW + 1
    /\ TLen(ticks[t].chunks[2]) = maxMessageLength
    /\ TLen(ticks[t].displayContent) > 0

\* the messages this step has created or rewritten
Written == { i \in DOMAIN msgs' : i \notin DOMAIN msgs \/ msgs'[i] # msgs[i] }

\* C24: the write of a finalized chunk carries the chunk without the Stop
\* control, to the in-flight message if there is one and to a new message
\* otherwise; after it responseMessage is cleared and the tick's next write
\* creates a message; a message written with the Stop control holds the tail
\* a tick was left with after its last cut.
C24_ChunksWithoutControl ==
  [][ /\ \A t \in TickIds :
           Cuts(t) =>
             LET chunk == ticks'[t].chunks[Len(ticks'[t].chunks)]
                 target == ticks[t].target
             IN /\ states'[ticks[t].gen].responseMessage = 0
                /\ ticks'[t].target = 0
                /\ \A i \in Written :
                     /\ msgs'[i] = [content |-> chunk, stop |-> FALSE]
                     /\ i = IF target # 0 THEN target ELSE Len(msgs) + 1
      /\ \A i \in Written :
           msgs'[i].stop =>
             \E t \in TickIds :
               /\ ticks[t].pc \in { "final", "fallback" }
               /\ ticks'[t].pc = "free"
               /\ msgs'[i].content = ticks[t].displayContent
               /\ TLen(ticks[t].displayContent) <= maxMessageLength ]_vars

\* a tick has finalized the in-flight message as a chunk and written its
\* tail to a new message with the control
C24_Witness ==
  /\ terminal = 3
  /\ msgs = << Msg(Take(states[poller].accumulatedResponse,
                        states[poller].currentMessageStart), FALSE),
               Msg(Str("c", 300), TRUE) >>
  /\ states[poller].responseMessage = 2
  /\ failures = 0
  /\ InFlight = {}

\* C25: once the invocations that found the captured content changed have
\* returned (none of their writes having thrown), a request marker in that
\* content has been prompted for, also when the formatted output of the
\* capture is empty or shorter than the floor.
C25_ScannedOnEveryChange ==
  ( /\ poller # 0
    /\ InFlight = {}
    /\ failures = 0
    /\ SkillMatches(states[poller].lastContent) # << >> )
  => \E s \in Sources : promptSends[s] > 0

\* the step in which t's invocation catches an error
Throws(t) ==
  /\ failures' > failures
  /\ IF ticks[t].pc = "free" THEN UNCHANGED ticks
     ELSE \A u \in TickIds \ { t } : ticks'[u] = ticks[u]

\* C26: a step in which an invocation catches an error (of the capture, of
\* a send or of an edit) leaves the timer running as it was, and leaves the
\* state objects of the other pollers and the other invocations as they were.
C26_FailureContained ==
  [][ failures' > failures =>
        /\ poller' = poller
        /\ gen' = gen
        /\ sessionExists' = sessionExists
        /\ \E t \in TickIds :
             /\ Throws(t)
             /\ \A g \in Gens :
                  (ticks[t].pc = "free" \/ g # ticks[t].gen) => states'[g] = states[g] ]_vars

\* a write of an invocation of the first poller has thrown while the second
\* poller's timer runs
C26_Witness ==
  /\ failures > 0
  /\ poller = 2
  /\ \E t \in TickIds : ticks[t].pc = "fallback" /\ ticks[t].gen = 1

\* the loop takes a line in this step: the line, trimmed, and the loop's
\* variables before and after
Taken == probe.output.i <= Len(probe.input) /\ probe'.output.i = probe.output.i + 1
TakenLine == Trim(probe.input[probe.output.i])
Before == probe.output
After == probe'.output
Skipped == After = [Before EXCEPT !.i = @ + 1]
Continued ==
  After = [Before EXCEPT !.i = @ + 1,
                         !.cur.content = Cat(Cat(Before.cur.content, Str("\n", 1)), TakenLine)]
ProseOpen(ps) == ps.open /\ ps.cur.type = "text"
Saved(ps) == IF ps.open THEN Append(ps.segments, ps.cur) ELSE ps.segments

\* the first of the four tool forms, in the order web search, MCP, verb
\* summary, parenthesized call, that matches the line
FirstForm(clean) ==
  IF webSearchMatch(clean).ok THEN webSearchMatch(clean)
  ELSE IF mcpMatch(clean).ok THEN mcpMatch(clean)
  ELSE IF toolSummaryMatch(clean).ok THEN toolSummaryMatch(clean)
  ELSE toolCallMatch(clean)

Unmarked(clean, inToolOutput) ==
  /\ clean # EmptyText
  /\ ~IsSeparator(clean)
  /\ ~IsStatus(clean)
  /\ First(clean) \notin { PROMPTGLYPH, TOOLOUT, LEAD }
  /\ ~(First(clean) \in { BAR, PIPE } /\ inToolOutput)
  /\ ~IsRawData(clean)
  /\ ~FirstForm(clean).ok

\* C29: a line that none of the discard, tool or lead-glyph rules takes is
\* appended when a prose segment is open and the inside-tool-output flag is
\* false, and changes nothing otherwise; the flag is set only by a
\* tool-output glyph line or a tool invocation and cleared only by a
\* lead-glyph prose line; while a tool_call segment is open the flag is
\* true.
C29_UnmarkedLines ==
  [][ Taken =>
        /\ Unmarked(TakenLine, Before.inToolOutput) =>
             IF ProseOpen(Before) /\ ~Before.inToolOutput THEN Continued ELSE Skipped
        /\ ~Before.inToolOutput /\ After.inToolOutput =>
             \/ First(TakenLine) = TOOLOUT
             \/ FirstForm(TakenLine).ok /\ After.cur.type = "tool_call"
        /\ Before.inToolOutput /\ ~After.inToolOutput =>
             First(TakenLine) = LEAD /\ After.cur.type = "text" /\ After.segments = Saved(Before)
        /\ After.open /\ After.cur.type = "tool_call" => After.inToolOutput ]_vars

\* an unmarked line under a tool call was left out, and the loop has gone on
\* to the next line
C29_Witness ==
  /\ probe.output.i = 3
  /\ probe.input[1] = BashLine
  /\ probe.input[2] = PlainLine
  /\ probe.output.open
  /\ probe.output.cur.type = "tool_call"
  /\ probe.output.cur.content = BashLine
  /\ probe.output.segments = << >>

\* the tool_call segments pushed or open
ToolCallsSoFar ==
  { seg \in { probe.output.segments[k] : k \in DOMAIN probe.output.segments }
            \cup (IF probe.output.open THEN { probe.output.cur } ELSE {}) :
      seg.type = "tool_call" }

\* the line of the segment has more than 50 characters besides its blanks,
\* its quotes, the tool name and the brackets around the target
LongLine(seg) == TLen(RemoveChars(seg.content, Quotes \cup { " " })) > 50 + 6

EndsWithEllipsis(target) ==
  TLen(target) >= 3 /\ Slice(target, TLen(target) - 3, TLen(target)) = Str(".", 3)

\* C30: every tool_call segment has a toolTarget of at most 50 characters,
\* and the target of a line too long for that ends with the ellipsis.
C30_TargetAtMost50 ==
  \A seg \in ToolCallsSoFar :
    /\ TLen(seg.toolTarget) <= 50
    /\ LongLine(seg) => EndsWithEllipsis(seg.toolTarget)

\* C31: the buffer Read(a.ts), Read(b.ts), Edit(a.ts), "Updated both files."
\* is shown as two blocks with one blank line between them: a summary with a
\* Read line listing a.ts and b.ts and an Edit line with a.ts, none of the
\* targets carrying the closing parenthesis, and then the prose
ReadReadEdit(glyph) ==
  << CallLine(glyph, "Read", FileA), CallLine(glyph, "Read", FileB),
     CallLine(glyph, "Edit", FileA), UpdatedLine >>
ReadLine_ ==
  Line(<< Str("e", 2), Sp, Str("t", 4), Sp, Str("t", 4), Chr(":"), Sp,
          Chr("q"), FileA, Chr("q"), Chr(","), Sp, Chr("q"), FileB, Chr("q") >>)
EditLine_ ==
  Line(<< Str("e", 2), Sp, Str("t", 6), Chr(":"), Sp, Chr("q"), FileA, Chr("q") >>)
TwoBlocks ==
  Line(<< ReadLine_, Chr("\n"), EditLine_, Str("\n", 2), Str("u", 7) >>)
C31_ReadReadEdit ==
  \A g \in Glyphs :
    (probe.done /\ probe.input = ReadReadEdit(g)) => probe.output = TwoBlocks

\* the line matches one of the four discard rules
Discarded(clean) ==
  /\ clean # EmptyText
  /\ \/ IsSeparator(clean)
     \/ IsStatus(clean)
     \/ First(clean) = PROMPTGLYPH
     \/ IsRawData(clean)

\* C32: a line that matches the separator, status/hint, prompt or raw-data
\* rule is only stepped over: the segments, the open segment and the
\* inside-tool-output flag are after the line what they were before it,
\* whatever glyph the line starts with and whatever segment is open.
C32_DiscardedLines ==
  [][ (Taken /\ Discarded(TakenLine)) => Skipped ]_vars

\* the last line taken has the given first glyph and is a hint line
HintTaken(glyph) ==
  /\ probe.output.i = Len(probe.input) + 1
  /\ First(Trim(probe.input[Len(probe.input)])) = glyph
  /\ IsStatus(Trim(probe.input[Len(probe.input)]))

\* a hint line that starts with the lead glyph and has the form of a verb
\* summary was stepped over while a prose segment was open
C32_Witness ==
  /\ HintTaken(LEAD)
  /\ toolSummaryMatch(Trim(probe.input[Len(probe.input)])).ok
  /\ ProseOpen(probe.output)
  /\ probe.output.segments = << >>

\* the last segment of the run of tool calls that holds segs[i]
RECURSIVE ToolRunLast(_, _)
ToolRunLast(segs, i) ==
  IF i < Len(segs) /\ segs[i + 1].type = "tool_call" THEN ToolRunLast(segs, i + 1) ELSE i

\* where a tool name is first seen in a run, and the names by that place
FirstSeenAt(calls, name) ==
  CHOOSE k \in DOMAIN calls :
    calls[k].toolName = name /\ \A j \in 1..(k - 1) : calls[j].toolName # name
FirstSeenOrder(calls) ==
  LET names == { calls[k].toolName : k \in DOMAIN calls }
  IN [ r \in 1..Cardinality(names) |->
         CHOOSE n \in names :
           Cardinality({ m \in names : FirstSeenAt(calls, m) < FirstSeenAt(calls, n) }) = r - 1 ]

\* the summary block of a run: one line per tool, joined by single newlines
SummaryBlock(calls) ==
  LET order == FirstSeenOrder(calls)
  IN JoinWith([ r \in DOMAIN order |->
                  RenderSummary(Summary(order[r], Bucket(calls, order[r]))) ],
              Str("\n", 1))

\* the blocks of a list of segments, from segment i on: one per text
\* segment and one per maximal run of tool calls, in the segments' order
RECURSIVE BlocksFrom(_, _)
BlocksFrom(segs, i) ==
  IF i > Len(segs) THEN << >>
  ELSE IF segs[i].type = "text"
       THEN << Trim(segs[i].content) >> \o BlocksFrom(segs, i + 1)
  ELSE LET j == ToolRunLast(segs, i)
       IN << SummaryBlock(SubSeq(segs, i, j)) >> \o BlocksFrom(segs, j + 1)

BlocksJoined(segs) == JoinWith(BlocksFrom(segs, 1), Str("\n", 2))

\* C33: formatForDiscord returns the blocks of the segments, one per text
\* segment (its trimmed content) and one per maximal run of tool calls (its
\* per-tool lines in first-seen order, joined by single newlines), in the
\* segments' order and joined by one blank line, with the white space at
\* the two ends of the whole removed.
C33_BlocksInOrder ==
  probe.done => probe.output = Trim(BlocksJoined(probe.input))

\* C33 as stated: the result is the blocks joined by one blank line
C33_AsStated ==
  probe.done => probe.output = BlocksJoined(probe.input)

\* an empty text segment, a run of an Edit and a Read call, and prose were
\* formatted
C33_Witness ==
  /\ probe.done
  /\ Len(probe.input) = 4
  /\ probe.input[1] = TextSegment(EmptyText)
  /\ probe.input[2].toolName = "Edit"
  /\ probe.input[3].toolName = "Read"
  /\ probe.input[4] = TextSegment(Str("x", 2))

\* C34: when no invocation of processOutput is in flight, the offset of the
\* live message lies within the formatted text of the turn:
\* 0 <= currentMessageStart <= length of accumulatedResponse (no write has
\* failed).
C34_OffsetWithinText ==
  (poller # 0 /\ InFlight = {} /\ failures = 0)
    => /\ 0 <= states[poller].currentMessageStart
       /\ states[poller].currentMessageStart <= TLen(states[poller].accumulatedResponse)

\* an invocation of processOutput begins in this step, in slot t
InvocationBegins(t) == ticks[t].pc = "free" /\ ticks'[t].pc # "free"

\* C35: at most one interval is set at any time, and it is the one the
\* entry in outputStates holds: with no entry there is no interval; an
\* invocation begins only for an interval that is set, so none begins
\* after stopOutputPoller until the poller is started again.
C35_OneTimer ==
  /\ [](/\ Cardinality(timers) <= 1
        /\ timers = IF poller = 0 THEN {} ELSE {poller})
  /\ [][ \A t \in TickIds :
           InvocationBegins(t) => poller # 0 /\ timers = {poller} /\ ticks'[t].gen = poller ]_vars

\* the poller was stopped and started again while an invocation of the
\* first timer was still waiting for a send of its own
C35_Witness ==
  /\ gen = 2
  /\ timers = {2}
  /\ poller = 2
  /\ \E t \in TickIds : ticks[t].gen = 1 /\ ticks[t].pc \in { "final", "fallback", "idle" }

\* C36: while the buffer is what it was when the poller was started, no
\* tick creates or edits a message.
C36_QuietWhileUnchanged ==
  (poller # 0 /\ Len(script) = 1) => (msgs = << >> /\ idleEdits = 0)

\* the keys of TOOL_EMOJI
CanonicalNames ==
  { "Bash", "Read", "Edit", "Write", "Glob", "Grep", "Task", "WebFetch", "WebSearch",
    "AskUserQuestion", "MCP" }

\* C37: the toolName of every tool_call segment the parser has pushed or
\* holds open is one of the canonical names, whatever the letter case of
\* the line it was taken from.
C37_CanonicalToolName ==
  \A seg \in ToolCallsSoFar : seg.toolName \in CanonicalNames

\* the request for source s has been prompted for and answered: it is no
\* longer the pending one
Answered(s) == promptSends[s] >= 1 /\ pendingSkillRequests # s

\* C38: once the request for a source has been answered with confirm or
\* cancel, no later tick sends a confirmation prompt for that source again.
C38_NoPromptAfterAnswer ==
  [][ \A s \in Sources : Answered(s) => promptSends'[s] = promptSends[s] ]_vars

\* C39: reverseMap is the inverse of channelMap: getSessionByChannel(c) is
\* s exactly when getChannelBySession(s) is c.
C39_ReverseIsInverse ==
  \A sessionId \in ManagedSessions, channelId \in ManagedChannels :
    getSessionByChannel(probe.output, channelId) = sessionId
      <=> getChannelBySession(probe.output, sessionId) = channelId

====
